---- MODULE Spec2Model ----
(***************************************************************************)
(* Model of scripts/build_financial_download_plan.py: build_plan and the   *)
(* helpers it calls.  Text values are TLA+ strings handled character by    *)
(* character; an Optional value is the empty set (None) or a singleton.    *)
(***************************************************************************)
EXTENDS Integers, Sequences, FiniteSets, TLC

(***************************************************************************)
(* Bounds of the model.                                                    *)
(***************************************************************************)
MaxDefaulters == 2
MaxNonDefaulters == 2
MaxLookback == 2

(***************************************************************************)
(* Python str primitives.                                                  *)
(***************************************************************************)
None == {}
Some(v) == {v}
TheValue(opt) == CHOOSE v \in opt : TRUE

\* The characters the model's texts use, in ascending code point order.
CODE_ORDER == " +-.0123456789ABCDEFGHIJKLMNOPQRSTUVWXYZ_abcdefghijklmnopqrstuvwxyz|"
UPPERCASE == "ABCDEFGHIJKLMNOPQRSTUVWXYZ"
LOWERCASE == "abcdefghijklmnopqrstuvwxyz"
DIGITS == "0123456789"

CharAt(s, i) == SubSeq(s, i, i)

\* Position of character c in alphabet, 0 when absent.
IndexIn(c, alphabet) ==
    IF \E i \in 1..Len(alphabet) : CharAt(alphabet, i) = c
    THEN CHOOSE i \in 1..Len(alphabet) : CharAt(alphabet, i) = c
    ELSE 0

\* Rank of c by code point: ord(a) < ord(b) iff Ord(a) < Ord(b).
Ord(c) == IndexIn(c, CODE_ORDER)

IsSpace(c) == c = " "

RECURSIVE LStrip(_)
LStrip(s) ==
    IF Len(s) > 0 /\ IsSpace(CharAt(s, 1)) THEN LStrip(SubSeq(s, 2, Len(s))) ELSE s

RECURSIVE RStrip(_)
RStrip(s) ==
    IF Len(s) > 0 /\ IsSpace(CharAt(s, Len(s))) THEN RStrip(SubSeq(s, 1, Len(s) - 1)) ELSE s

\* str.strip()
Strip(s) == RStrip(LStrip(s))

LowerChar(c) ==
    IF IndexIn(c, UPPERCASE) > 0 THEN CharAt(LOWERCASE, IndexIn(c, UPPERCASE)) ELSE c

UpperChar(c) ==
    IF IndexIn(c, LOWERCASE) > 0 THEN CharAt(UPPERCASE, IndexIn(c, LOWERCASE)) ELSE c

RECURSIVE Lower(_)
\* str.lower()
Lower(s) == IF Len(s) = 0 THEN "" ELSE LowerChar(CharAt(s, 1)) \o Lower(SubSeq(s, 2, Len(s)))

RECURSIVE Upper(_)
\* str.upper()
Upper(s) == IF Len(s) = 0 THEN "" ELSE UpperChar(CharAt(s, 1)) \o Upper(SubSeq(s, 2, Len(s)))

\* str.startswith(prefix)
StartsWith(s, prefix) ==
    Len(prefix) <= Len(s) /\ SubSeq(s, 1, Len(prefix)) = prefix

\* str.endswith(suffix)
EndsWith(s, suffix) ==
    Len(suffix) <= Len(s) /\ SubSeq(s, Len(s) - Len(suffix) + 1, Len(s)) = suffix

RECURSIVE StrLess(_, _)
\* a < b on Python str: lexicographic by code point, a proper prefix is smaller.
StrLess(a, b) ==
    IF Len(b) = 0 THEN FALSE
    ELSE IF Len(a) = 0 THEN TRUE
    ELSE IF CharAt(a, 1) = CharAt(b, 1)
         THEN StrLess(SubSeq(a, 2, Len(a)), SubSeq(b, 2, Len(b)))
         ELSE Ord(CharAt(a, 1)) < Ord(CharAt(b, 1))

RECURSIVE FormatNat(_)
\* str(n) for n >= 0
FormatNat(n) ==
    IF n < 10 THEN CharAt(DIGITS, n + 1)
    ELSE FormatNat(n \div 10) \o CharAt(DIGITS, (n % 10) + 1)

\* f"{n:+d}"
FormatSigned(n) == IF n < 0 THEN "-" \o FormatNat(0 - n) ELSE "+" \o FormatNat(n)

RECURSIVE DigitsValue(_, _)
\* Value of a digit string in which underscores are skipped, acc is the value so far.
DigitsValue(s, acc) ==
    IF Len(s) = 0 THEN acc
    ELSE IF CharAt(s, 1) = "_" THEN DigitsValue(SubSeq(s, 2, Len(s)), acc)
    ELSE DigitsValue(SubSeq(s, 2, Len(s)), acc * 10 + (IndexIn(CharAt(s, 1), DIGITS) - 1))

\* The text int() accepts after its sign: digits, single underscores only between digits.
IsIntBody(s) ==
    /\ Len(s) > 0
    /\ \A i \in 1..Len(s) : IndexIn(CharAt(s, i), DIGITS) > 0 \/ CharAt(s, i) = "_"
    /\ CharAt(s, 1) # "_"
    /\ CharAt(s, Len(s)) # "_"
    /\ \A i \in 1..(Len(s) - 1) : ~(CharAt(s, i) = "_" /\ CharAt(s, i + 1) = "_")

\* int(text): None models ValueError.
ParseInt(text) ==
    LET t == Strip(text)
        signed == Len(t) > 0 /\ CharAt(t, 1) \in {"+", "-"}
        body == IF signed THEN SubSeq(t, 2, Len(t)) ELSE t
    IN  IF ~IsIntBody(body) THEN None
        ELSE IF signed /\ CharAt(t, 1) = "-" THEN Some(0 - DigitsValue(body, 0))
        ELSE Some(DigitsValue(body, 0))

\* parse_year with the bounds of the accepted range left out.
parse_year_OpenRange(value) ==
    IF value = None THEN None
    ELSE LET text == Strip(TheValue(value))
         IN  IF Len(text) = 0 \/ Lower(text) \in {"nan", "na", "none", "-"} THEN None
             ELSE LET text2 == IF EndsWith(text, ".0") THEN SubSeq(text, 1, Len(text) - 2) ELSE text
                      year == ParseInt(text2)
                  IN  IF year = None THEN None
                      ELSE IF 1900 < TheValue(year) /\ TheValue(year) < 2100 THEN year
                      ELSE None

\* parse_year(value): value is None or Some(text); the result is None or Some(year).
parse_year(value) ==
    IF value = None THEN None
    ELSE LET text == Strip(TheValue(value))
         IN  IF Len(text) = 0 \/ Lower(text) \in {"nan", "na", "none", "-"} THEN None
             ELSE LET text2 == IF EndsWith(text, ".0") THEN SubSeq(text, 1, Len(text) - 2) ELSE text
                      year == ParseInt(text2)
                  IN  IF year = None THEN None
                      ELSE IF 1900 <= TheValue(year) /\ TheValue(year) <= 2100 THEN year
                      ELSE None

\* Python truth value of an Optional[int]: None and 0 are false.
Truthy(opt) == opt # None /\ TheValue(opt) # 0


(***************************************************************************)
(* Python dict and pandas row primitives.                                  *)
(***************************************************************************)
\* dict.get(key, default)
CfgGet(cfg, key, default) == IF key \in DOMAIN cfg THEN cfg[key] ELSE default

\* dict.get(key): None when the key is absent.
CfgGetOpt(cfg, key) == IF key \in DOMAIN cfg THEN Some(cfg[key]) ELSE None

\* row.get(col) on a row of an input DataFrame: None when the column is absent.
RowGet(row, col) == IF col \in DOMAIN row THEN Some(row[col]) ELSE None

\* str(row.get(col, "")) on a row of an input DataFrame.
RowText(row, col) == IF col \in DOMAIN row THEN row[col] ELSE ""

\* row.get(col) on a row of def_with_anchor while the anchors are being inferred:
\* the copy's anchor_fy column was reset to None and anchor_reason to "".
DefRowGet(d, col) ==
    IF col = "anchor_fy" THEN None
    ELSE IF col = "anchor_reason" THEN Some("")
    ELSE RowGet(d.row, col)

(***************************************************************************)
(* The helpers of build_plan.                                              *)
(***************************************************************************)
\* infer_defaulter_anchor with the default mode consulting default_year before fy_before_default.
infer_defaulter_anchor_DefaultYearFirst(d, cfg, fallback_anchor) ==
    LET mode == Lower(Strip(CfgGet(cfg, "anchor_mode", "fy_before_default_or_default_minus_one")))
    IN  IF mode = "fixed_year"
        THEN LET year == parse_year(CfgGetOpt(cfg, "fixed_anchor_fy"))
             IN  IF Truthy(year) THEN <<TheValue(year), "fixed_year">>
                 ELSE <<fallback_anchor, "fallback_default_anchor_fy">>
        ELSE IF mode = "column"
        THEN LET col == CfgGet(cfg, "anchor_column", "anchor_fy")
                 year == parse_year(DefRowGet(d, col))
             IN  IF Truthy(year) THEN <<TheValue(year), col>>
                 ELSE <<fallback_anchor, "fallback_default_anchor_fy">>
        ELSE LET fy_col == CfgGet(cfg, "fy_before_default_column", "fy_before_default")
                 default_col == CfgGet(cfg, "default_year_column", "default_year")
                 offset == CfgGet(cfg, "default_year_offset", -1)
                 year == parse_year(DefRowGet(d, fy_col))
                 default_year == parse_year(DefRowGet(d, default_col))
             IN  IF Truthy(default_year)
                 THEN <<TheValue(default_year) + offset, default_col \o FormatSigned(offset)>>
                 ELSE IF Truthy(year) THEN <<TheValue(year), fy_col>>
                 ELSE <<fallback_anchor, "fallback_default_anchor_fy">>

\* infer_defaulter_anchor that takes the default branch only under its own mode name.
infer_defaulter_anchor_UnknownFallsBack(d, cfg, fallback_anchor) ==
    LET mode == Lower(Strip(CfgGet(cfg, "anchor_mode", "fy_before_default_or_default_minus_one")))
    IN  IF mode = "fixed_year"
        THEN LET year == parse_year(CfgGetOpt(cfg, "fixed_anchor_fy"))
             IN  IF Truthy(year) THEN <<TheValue(year), "fixed_year">>
                 ELSE <<fallback_anchor, "fallback_default_anchor_fy">>
        ELSE IF mode = "column"
        THEN LET col == CfgGet(cfg, "anchor_column", "anchor_fy")
                 year == parse_year(DefRowGet(d, col))
             IN  IF Truthy(year) THEN <<TheValue(year), col>>
                 ELSE <<fallback_anchor, "fallback_default_anchor_fy">>
        ELSE IF mode # "fy_before_default_or_default_minus_one"
        THEN <<fallback_anchor, "fallback_default_anchor_fy">>
        ELSE LET fy_col == CfgGet(cfg, "fy_before_default_column", "fy_before_default")
                 default_col == CfgGet(cfg, "default_year_column", "default_year")
                 offset == CfgGet(cfg, "default_year_offset", -1)
                 year == parse_year(DefRowGet(d, fy_col))
                 default_year == parse_year(DefRowGet(d, default_col))
             IN  IF Truthy(year) THEN <<TheValue(year), fy_col>>
                 ELSE IF Truthy(default_year)
                 THEN <<TheValue(default_year) + offset, default_col \o FormatSigned(offset)>>
                 ELSE <<fallback_anchor, "fallback_default_anchor_fy">>

\* infer_defaulter_anchor(row, cfg, fallback_anchor) = <<anchor, reason>>
infer_defaulter_anchor(d, cfg, fallback_anchor) ==
    LET mode == Lower(Strip(CfgGet(cfg, "anchor_mode", "fy_before_default_or_default_minus_one")))
    IN  IF mode = "fixed_year"
        THEN LET year == parse_year(CfgGetOpt(cfg, "fixed_anchor_fy"))
             IN  IF Truthy(year) THEN <<TheValue(year), "fixed_year">>
                 ELSE <<fallback_anchor, "fallback_default_anchor_fy">>
        ELSE IF mode = "column"
        THEN LET col == CfgGet(cfg, "anchor_column", "anchor_fy")
                 year == parse_year(DefRowGet(d, col))
             IN  IF Truthy(year) THEN <<TheValue(year), col>>
                 ELSE <<fallback_anchor, "fallback_default_anchor_fy">>
        ELSE LET fy_col == CfgGet(cfg, "fy_before_default_column", "fy_before_default")
                 default_col == CfgGet(cfg, "default_year_column", "default_year")
                 offset == CfgGet(cfg, "default_year_offset", -1)
                 year == parse_year(DefRowGet(d, fy_col))
                 default_year == parse_year(DefRowGet(d, default_col))
             IN  IF Truthy(year) THEN <<TheValue(year), fy_col>>
                 ELSE IF Truthy(default_year)
                 THEN <<TheValue(default_year) + offset, default_col \o FormatSigned(offset)>>
                 ELSE <<fallback_anchor, "fallback_default_anchor_fy">>

\* infer_non_defaulter_anchor that falls back to the record's raw sector when the alias target
\* has no median.
infer_non_defaulter_anchor_RawSectorRetry(row, cfg, fallback_anchor, sector_meds, global_med) ==
    LET mode == Lower(Strip(CfgGet(cfg, "anchor_mode", "sector_median_from_defaulters")))
    IN  IF mode = "fixed_year"
        THEN LET year == parse_year(CfgGetOpt(cfg, "fixed_anchor_fy"))
             IN  IF Truthy(year) THEN <<TheValue(year), "fixed_year">>
                 ELSE <<fallback_anchor, "fallback_default_anchor_fy">>
        ELSE IF mode = "column"
        THEN LET col == CfgGet(cfg, "anchor_column", "anchor_fy")
                 year == parse_year(RowGet(row, col))
             IN  IF Truthy(year) THEN <<TheValue(year), col>>
                 ELSE <<fallback_anchor, "fallback_default_anchor_fy">>
        ELSE IF mode = "global_median_from_defaulters"
        THEN <<global_med, "global_median_from_defaulters">>
        ELSE LET raw_sector == Strip(RowText(row, "sector"))
                 aliases == CfgGet(cfg, "sector_aliases", <<>>)
                 sector == Strip(CfgGet(aliases, raw_sector, raw_sector))
             IN  IF Len(sector) > 0 /\ sector \in DOMAIN sector_meds
                 THEN <<sector_meds[sector], "sector_median_from_defaulters">>
                 ELSE IF Len(raw_sector) > 0 /\ raw_sector \in DOMAIN sector_meds
                 THEN <<sector_meds[raw_sector], "sector_median_from_defaulters">>
                 ELSE <<global_med, "global_median_from_defaulters">>

\* infer_non_defaulter_anchor that looks up the record's raw sector, ignoring sector_aliases.
infer_non_defaulter_anchor_NoAlias(row, cfg, fallback_anchor, sector_meds, global_med) ==
    LET mode == Lower(Strip(CfgGet(cfg, "anchor_mode", "sector_median_from_defaulters")))
    IN  IF mode = "fixed_year"
        THEN LET year == parse_year(CfgGetOpt(cfg, "fixed_anchor_fy"))
             IN  IF Truthy(year) THEN <<TheValue(year), "fixed_year">>
                 ELSE <<fallback_anchor, "fallback_default_anchor_fy">>
        ELSE IF mode = "column"
        THEN LET col == CfgGet(cfg, "anchor_column", "anchor_fy")
                 year == parse_year(RowGet(row, col))
             IN  IF Truthy(year) THEN <<TheValue(year), col>>
                 ELSE <<fallback_anchor, "fallback_default_anchor_fy">>
        ELSE IF mode = "global_median_from_defaulters"
        THEN <<global_med, "global_median_from_defaulters">>
        ELSE LET sector == Strip(RowText(row, "sector"))
             IN  IF Len(sector) > 0 /\ sector \in DOMAIN sector_meds
                 THEN <<sector_meds[sector], "sector_median_from_defaulters">>
                 ELSE <<global_med, "global_median_from_defaulters">>

\* infer_non_defaulter_anchor(row, cfg, fallback_anchor, sector_medians, global_median)
infer_non_defaulter_anchor(row, cfg, fallback_anchor, sector_meds, global_med) ==
    LET mode == Lower(Strip(CfgGet(cfg, "anchor_mode", "sector_median_from_defaulters")))
    IN  IF mode = "fixed_year"
        THEN LET year == parse_year(CfgGetOpt(cfg, "fixed_anchor_fy"))
             IN  IF Truthy(year) THEN <<TheValue(year), "fixed_year">>
                 ELSE <<fallback_anchor, "fallback_default_anchor_fy">>
        ELSE IF mode = "column"
        THEN LET col == CfgGet(cfg, "anchor_column", "anchor_fy")
                 year == parse_year(RowGet(row, col))
             IN  IF Truthy(year) THEN <<TheValue(year), col>>
                 ELSE <<fallback_anchor, "fallback_default_anchor_fy">>
        ELSE IF mode = "global_median_from_defaulters"
        THEN <<global_med, "global_median_from_defaulters">>
        ELSE LET raw_sector == Strip(RowText(row, "sector"))
                 aliases == CfgGet(cfg, "sector_aliases", <<>>)
                 sector == Strip(CfgGet(aliases, raw_sector, raw_sector))
             IN  IF Len(sector) > 0 /\ sector \in DOMAIN sector_meds
                 THEN <<sector_meds[sector], "sector_median_from_defaulters">>
                 ELSE <<global_med, "global_median_from_defaulters">>

\* list.reverse()
Reverse(seq) == [i \in 1..Len(seq) |-> seq[Len(seq) + 1 - i]]

\* years_from_anchor with a window one year short.
years_from_anchor_OffByOne(anchor_fy, lookback, order) ==
    LET years == [i \in 1..(lookback - 1) |-> anchor_fy - (i - 1)]
    IN  IF order = "asc" THEN Reverse(years) ELSE years

\* years_from_anchor that never reverses the window.
years_from_anchor_NoReverse(anchor_fy, lookback, order) ==
    [i \in 1..lookback |-> anchor_fy - (i - 1)]

\* years_from_anchor(anchor_fy, lookback_years, year_order)
years_from_anchor(anchor_fy, lookback, order) ==
    LET years == [i \in 1..lookback |-> anchor_fy - (i - 1)]
    IN  IF order = "asc" THEN Reverse(years) ELSE years

\* cin_is_listed comparing the prefixes as they are written.
cin_is_listed_CaseSensitive(cin, prefixes) ==
    LET text == Upper(Strip(IF cin = None THEN "" ELSE TheValue(cin)))
    IN  IF Len(text) = 0 THEN FALSE
        ELSE \E i \in 1..Len(prefixes) : StartsWith(text, prefixes[i])

\* cin_is_listed(cin, listed_prefixes): cin is None or Some(text).
cin_is_listed(cin, prefixes) ==
    LET text == Upper(Strip(IF cin = None THEN "" ELSE TheValue(cin)))
    IN  IF Len(text) = 0 THEN FALSE
        ELSE \E i \in 1..Len(prefixes) : StartsWith(text, Upper(prefixes[i]))

RECURSIVE InsertInt(_, _)
InsertInt(x, sorted) ==
    IF Len(sorted) = 0 THEN <<x>>
    ELSE IF x < Head(sorted) THEN <<x>> \o sorted
    ELSE <<Head(sorted)>> \o InsertInt(x, Tail(sorted))

RECURSIVE SortInts(_)
\* sorted(values)
SortInts(values) ==
    IF Len(values) = 0 THEN <<>> ELSE InsertInt(Head(values), SortInts(Tail(values)))

\* int(round(x)) for x = twice / 2: Python 3 rounds a half to the even neighbour.
RoundHalf(twice) ==
    IF twice % 2 = 0 THEN twice \div 2
    ELSE LET lower == (twice - 1) \div 2
         IN  IF lower % 2 = 0 THEN lower ELSE lower + 1

\* statistics.median(values), doubled so that it stays an integer.
TwiceMedian(values) ==
    LET data == SortInts(values)
        n == Len(data)
    IN  IF n % 2 = 1 THEN 2 * data[(n + 1) \div 2]
        ELSE data[n \div 2] + data[(n \div 2) + 1]

\* median_or_fallback that ignores the caller's fallback.
median_or_fallback_Fixed(values, fallback) ==
    IF Len(values) = 0 THEN 2023 ELSE RoundHalf(TwiceMedian(values))

\* median_or_fallback(values, fallback)
median_or_fallback(values, fallback) ==
    IF Len(values) = 0 THEN fallback ELSE RoundHalf(TwiceMedian(values))

RECURSIVE Join_Reversed(_, _)
\* sep.join(parts) with the parts taken last to first.
Join_Reversed(sep, parts) ==
    IF Len(parts) = 0 THEN ""
    ELSE IF Len(parts) = 1 THEN parts[1]
    ELSE Join_Reversed(sep, Tail(parts)) \o sep \o Head(parts)

RECURSIVE Join(_, _)
\* sep.join(parts)
Join(sep, parts) ==
    IF Len(parts) = 0 THEN ""
    ELSE IF Len(parts) = 1 THEN parts[1]
    ELSE parts[1] \o sep \o Join(sep, Tail(parts))


(***************************************************************************)
(* append_company_rows and the final sort.                                 *)
(***************************************************************************)
\* The rows appended for one target year: required documents, then optional ones.
YearRows(base, year, required, optional) ==
    [k \in 1..Len(required) |->
        [cohort |-> base.cohort, company_name |-> base.company_name, cin |-> base.cin,
         sector |-> base.sector, is_listed |-> base.is_listed, anchor_fy |-> base.anchor_fy,
         anchor_reason |-> base.anchor_reason, source_priority |-> base.source_priority,
         default_year |-> base.default_year, fy_before_default |-> base.fy_before_default,
         target_fy |-> year, doc_type |-> required[k], required |-> TRUE]]
    \o
    [k \in 1..Len(optional) |->
        [cohort |-> base.cohort, company_name |-> base.company_name, cin |-> base.cin,
         sector |-> base.sector, is_listed |-> base.is_listed, anchor_fy |-> base.anchor_fy,
         anchor_reason |-> base.anchor_reason, source_priority |-> base.source_priority,
         default_year |-> base.default_year, fy_before_default |-> base.fy_before_default,
         target_fy |-> year, doc_type |-> optional[k], required |-> FALSE]]

RECURSIVE AllYearRows(_, _, _, _)
AllYearRows(base, years, required, optional) ==
    IF Len(years) = 0 THEN <<>>
    ELSE YearRows(base, Head(years), required, optional)
         \o AllYearRows(base, Tail(years), required, optional)

\* The rows append_company_rows(row, cohort, anchor_fy, anchor_reason) appends to plan_rows.
append_company_rows(row, cohort, anchor_fy, anchor_reason, lookback, order, prefixes, prio_listed, prio_unlisted, required, optional) ==
    LET is_listed == cin_is_listed(RowGet(row, "cin"), prefixes)
        source_priority == IF is_listed THEN prio_listed ELSE prio_unlisted
        years == years_from_anchor(anchor_fy, lookback, order)
        base == [cohort |-> cohort,
                 company_name |-> Strip(RowText(row, "company_name")),
                 cin |-> Upper(Strip(RowText(row, "cin"))),
                 sector |-> Strip(RowText(row, "sector")),
                 is_listed |-> is_listed,
                 anchor_fy |-> anchor_fy,
                 anchor_reason |-> anchor_reason,
                 source_priority |-> Join("|", source_priority),
                 default_year |-> parse_year(RowGet(row, "default_year")),
                 fy_before_default |-> parse_year(RowGet(row, "fy_before_default"))]
    IN  AllYearRows(base, years, required, optional)

\* plan.sort_values(by=..., ascending=...)
SORT_BY == <<"cohort", "company_name", "target_fy", "required", "doc_type">>
\* The sort with every column ascending.
SORT_ASCENDING_AllAscending == <<TRUE, TRUE, TRUE, TRUE, TRUE>>
SORT_ASCENDING == <<TRUE, TRUE, FALSE, FALSE, TRUE>>

\* a[col] < b[col] for the column's type: int, bool (False < True) or str.
CellLess(col, a, b) ==
    IF col = "target_fy" THEN a.target_fy < b.target_fy
    ELSE IF col = "required" THEN (~a.required) /\ b.required
    ELSE StrLess(a[col], b[col])

RECURSIVE KeyLess(_, _, _)
\* a sorts strictly before b under columns k.. of the sort key.
KeyLess(a, b, k) ==
    IF k > Len(SORT_BY) THEN FALSE
    ELSE LET col == SORT_BY[k]
             lt == IF SORT_ASCENDING[k] THEN CellLess(col, a, b) ELSE CellLess(col, b, a)
             gt == IF SORT_ASCENDING[k] THEN CellLess(col, b, a) ELSE CellLess(col, a, b)
         IN  IF lt THEN TRUE ELSE IF gt THEN FALSE ELSE KeyLess(a, b, k + 1)

RECURSIVE InsertRow(_, _)
\* x goes after every row that does not sort strictly after it (stable).
InsertRow(x, sorted) ==
    IF Len(sorted) = 0 THEN <<x>>
    ELSE IF KeyLess(x, sorted[Len(sorted)], 1)
    THEN InsertRow(x, SubSeq(sorted, 1, Len(sorted) - 1)) \o <<sorted[Len(sorted)]>>
    ELSE sorted \o <<x>>

\* sort_values left out: the rows stay in the order they were appended.
sort_values_Skipped(rows) == rows

RECURSIVE sort_values(_)
\* The multi-column sort is a stable lexicographic sort.
sort_values(rows) ==
    IF Len(rows) = 0 THEN <<>>
    ELSE InsertRow(rows[Len(rows)], sort_values(SubSeq(rows, 1, Len(rows) - 1)))

(***************************************************************************)
(* Aggregation of the defaulter anchors.                                   *)
(***************************************************************************)
RECURSIVE InsertStr(_, _)
InsertStr(x, sorted) ==
    IF Len(sorted) = 0 THEN <<x>>
    ELSE IF StrLess(x, Head(sorted)) THEN <<x>> \o sorted
    ELSE <<Head(sorted)>> \o InsertStr(x, Tail(sorted))

RECURSIVE SortStrs(_)
SortStrs(set) ==
    IF set = {} THEN <<>>
    ELSE LET x == CHOOSE y \in set : TRUE IN InsertStr(x, SortStrs(set \ {x}))

\* The keys of def_with_anchor.groupby("sector", dropna=False): the distinct raw sector
\* values in ascending order.
SectorGroups(dwa) == SortStrs({dwa[i].row["sector"] : i \in 1..Len(dwa)})

RECURSIVE AnchorsOf(_, _, _)
\* [int(v) for v in <rows whose raw sector is in sectors>["anchor_fy"].dropna().tolist()],
\* from row i on.
AnchorsOf(dwa, sectors, i) ==
    IF i > Len(dwa) THEN <<>>
    ELSE IF dwa[i].row["sector"] \in sectors /\ dwa[i].anchor_fy # None
    THEN <<TheValue(dwa[i].anchor_fy)>> \o AnchorsOf(dwa, sectors, i + 1)
    ELSE AnchorsOf(dwa, sectors, i + 1)

\* valid_anchors
ValidAnchors(dwa) == AnchorsOf(dwa, {dwa[i].row["sector"] : i \in 1..Len(dwa)}, 1)

\* vals of the group whose raw sector is sector
GroupAnchors(dwa, sector) == AnchorsOf(dwa, {sector}, 1)

(***************************************************************************)
(* State of one build_plan(defaulters, non_defaulters, config) call.       *)
(***************************************************************************)
VARIABLES
    defaulters,        \* input DataFrame: sequence of rows (column -> text)
    def_columns,       \* defaulters.columns
    non_defaulters,    \* input DataFrame
    non_columns,       \* non_defaulters.columns
    config,            \* input mapping with its option groups
    pc,                \* position in build_plan
    error,             \* message of the exception raised, "" when none
    lookback_years, default_anchor, year_order,
    listed_prefixes, priority_listed, priority_unlisted,
    required_docs, optional_docs,
    def_with_anchor,   \* rows of the copy with anchor_fy (None until set) and anchor_reason
    global_median,     \* None until assigned
    sector_medians,    \* dict sector -> median
    idx,               \* position of the running loop
    plan_rows,         \* list of row dicts
    plan,              \* returned DataFrame, None until returned
    emitted            \* history: per input record, the rows appended for it

inputs == <<defaulters, def_columns, non_defaulters, non_columns, config>>
locals == <<lookback_years, default_anchor, year_order, listed_prefixes, priority_listed,
            priority_unlisted, required_docs, optional_docs>>
planVars == <<defaulters, def_columns, non_defaulters, non_columns, config, pc, error,
              lookback_years, default_anchor, year_order, listed_prefixes, priority_listed,
              priority_unlisted, required_docs, optional_docs, def_with_anchor, global_median,
              sector_medians, idx, plan_rows, plan, emitted>>

(***************************************************************************)
(* State of the calls of parse_year and cin_is_listed on their own.        *)
(***************************************************************************)
VARIABLES
    year_value,        \* argument of parse_year: None or the text of the value
    year_result,       \* what parse_year returned
    cin_value,         \* argument cin of cin_is_listed: None or the text of the value
    cin_prefixes,      \* argument listed_prefixes of cin_is_listed
    listed_result,     \* what cin_is_listed returned
    returned           \* the functions that have returned

functionVars == <<year_value, year_result, cin_value, cin_prefixes, listed_result, returned>>

(***************************************************************************)
(* State of cibil_mca_pipeline.py: the files and one run_pipeline call.    *)
(***************************************************************************)
VARIABLES
    cibil_csv,           \* rows of the --input file (company_name and cin texts)
    pipeline_limit,      \* --limit: None or the number
    pipeline_checkpoint, \* rows of the checkpoint file, <<>> while it does not exist
    pipeline_pc,         \* position in run_pipeline: "idle" between calls
    pipeline_todo,       \* todo of the running call
    pipeline_idx,        \* position of the loop of lines 84-92
    result,              \* what mca_fetch_report returned, None outside lines 88-92
    pipeline_message,    \* the last summary line printed by run_pipeline
    status_report,       \* what status_pipeline printed last, None before
    fetched              \* history: the CINs passed to mca_fetch_report so far

pipelineVars == <<cibil_csv, pipeline_limit, pipeline_checkpoint, pipeline_pc, pipeline_todo,
                  pipeline_idx, result, pipeline_message, status_report, fetched>>

(***************************************************************************)
(* State of cin_resolver.py: the files and one run_resolver call.          *)
(***************************************************************************)
VARIABLES
    resolver_csv,        \* rows of the --input file (company_name and cin texts)
    resolver_limit,      \* --limit: None or the number
    resolver_checkpoint, \* rows of the checkpoint file, <<>> while it does not exist
    resolver_pc,         \* position in run_resolver: "idle" between calls
    raw_df,              \* the frame read from the input and filled in place
    checkpoint,          \* the dict loaded from the checkpoint file and updated by the loop
    resolver_todo,       \* todo: pairs <<row index, name>>
    resolver_idx,        \* position of the loop of lines 223-232
    output_csv,          \* rows of the --output file, None before the first write
    resolved             \* history: the row indexes resolve_cin_mca was called for in the running call

resolverVars == <<resolver_csv, resolver_limit, resolver_checkpoint, resolver_pc, raw_df,
                  checkpoint, resolver_todo, resolver_idx, output_csv, resolved>>

vars == <<planVars, functionVars, pipelineVars, resolverVars>>

\* The programs that are not running in a specification stay as they are.
FunctionsIdle ==
    /\ year_value = None
    /\ year_result = None
    /\ cin_value = None
    /\ cin_prefixes = <<>>
    /\ listed_result = FALSE
    /\ returned = {}

PipelineIdle ==
    /\ cibil_csv = <<>>
    /\ pipeline_limit = None
    /\ pipeline_checkpoint = <<>>
    /\ pipeline_pc = "idle"
    /\ pipeline_todo = <<>>
    /\ pipeline_idx = 0
    /\ result = None
    /\ pipeline_message = ""
    /\ status_report = None
    /\ fetched = {}

ResolverIdle ==
    /\ resolver_csv = <<>>
    /\ resolver_limit = None
    /\ resolver_checkpoint = <<>>
    /\ resolver_pc = "idle"
    /\ raw_df = <<>>
    /\ checkpoint = <<>>
    /\ resolver_todo = <<>>
    /\ resolver_idx = 0
    /\ output_csv = None
    /\ resolved = {}

(***************************************************************************)
(* Inputs the model is run on.                                             *)
(***************************************************************************)
AllDefColumns == {"company_name", "cin", "sector", "default_year", "fy_before_default"}
AllNonColumns == {"company_name", "cin", "sector", "anchor_fy"}

DefaulterProfiles ==
    { [company_name |-> "Acme Ltd", cin |-> "L27100MH1995PLC084207", sector |-> "Steel",
       default_year |-> "2020", fy_before_default |-> ""],
      [company_name |-> "Beta Co", cin |-> "U1", sector |-> " Steel",
       default_year |-> "2021", fy_before_default |-> "2018.0"],
      [company_name |-> " Zed ", cin |-> "", sector |-> "",
       default_year |-> "1900", fy_before_default |-> "nan"],
      [company_name |-> "Acme Ltd", cin |-> " l5 ", sector |-> "IT",
       default_year |-> "abc", fy_before_default |-> "-"] }

NonDefaulterProfiles ==
    { [company_name |-> "Acme Ltd", cin |-> "l99", sector |-> "Steel", anchor_fy |-> "2016"],
      [company_name |-> "Coral Inc", cin |-> "U2", sector |-> "Metals", anchor_fy |-> ""],
      [company_name |-> "beta co", cin |-> "", sector |-> " ", anchor_fy |-> "1800"] }

\* The row of a DataFrame that has the given columns.
RowOf(profile, columns) == [c \in columns |-> profile[c]]

\* All sequences over set of length at most n.
SeqsUpTo(set, n) == UNION {[1..k -> set] : k \in 0..n}

BaseDocuments == [required |-> <<"annual_report">>, optional |-> <<"board_report">>]

Config(general, def_cfg, non_cfg, src_cfg, doc_cfg) ==
    [general |-> general, defaulters |-> def_cfg, non_defaulters |-> non_cfg,
     sources |-> src_cfg, documents |-> doc_cfg]

\* Configurations of the default anchor modes, run on every dataset.
DataConfigs ==
    { Config([lookback_years |-> n, year_order |-> order],
             [default_year_offset |-> offset],
             [sector_aliases |-> [Metals |-> "Steel"]],
             <<>>, BaseDocuments) :
        n \in 1..MaxLookback, order \in {"asc", "desc"}, offset \in {-1, 1} }

GeneralVariants ==
    { <<>>, [year_order |-> " ASC "], [year_order |-> "up"], [year_order |-> ""],
      [default_anchor_fy |-> 2200, lookback_years |-> 1],
      [default_anchor_fy |-> 1850, year_order |-> "Desc"] }

DefaulterVariants ==
    { [anchor_mode |-> "fixed_year", fixed_anchor_fy |-> "2021"],
      [anchor_mode |-> " Fixed_Year ", fixed_anchor_fy |-> "1800"],
      [anchor_mode |-> "column"],
      [anchor_mode |-> "column", anchor_column |-> "fy_before_default"],
      [anchor_mode |-> "bogus", default_year_offset |-> 0],
      [fy_before_default_column |-> "default_year", default_year_column |-> "fy_before_default"] }

NonDefaulterVariants ==
    { [anchor_mode |-> "fixed_year", fixed_anchor_fy |-> "2017.0"],
      [anchor_mode |-> "fixed_year"],
      [anchor_mode |-> "COLUMN"],
      [anchor_mode |-> "column", anchor_column |-> "sector"],
      [anchor_mode |-> "global_median_from_defaulters"],
      [anchor_mode |-> "bogus", sector_aliases |-> [Steel |-> "Metals"]],
      [sector_aliases |-> [Metals |-> " Steel "]] }

SourceVariants ==
    { [listed_cin_prefixes |-> <<"l", "U1">>],
      [listed_cin_prefixes |-> <<>>, priority_unlisted |-> <<"mca", "web">>],
      [priority_listed |-> <<"nse">>, priority_unlisted |-> <<>>] }

DocumentVariants ==
    { <<>>, [optional |-> <<"board_report">>],
      [required |-> <<"annual_report">>],
      [required |-> <<"balance_sheet", "annual_report">>, optional |-> <<"board_report">>],
      [required |-> <<"annual_report", "annual_report">>],
      [required |-> <<"annual_report">>, optional |-> <<"annual_report", "board_report">>] }

\* Configurations that vary one option group, run on a few datasets.
OptionConfigs ==
    {Config(g, <<>>, <<>>, <<>>, BaseDocuments) : g \in GeneralVariants}
    \cup {Config([lookback_years |-> MaxLookback], d, <<>>, <<>>, BaseDocuments) : d \in DefaulterVariants}
    \cup {Config(<<>>, <<>>, n, <<>>, BaseDocuments) : n \in NonDefaulterVariants}
    \cup {Config([lookback_years |-> 1], <<>>, <<>>, s, BaseDocuments) : s \in SourceVariants}
    \cup {Config([lookback_years |-> MaxLookback, year_order |-> order], <<>>, <<>>, <<>>, d) :
             order \in {"asc", "desc"}, d \in DocumentVariants}

Dataset(defs, dcols, nons, ncols, cfg) ==
    [defaulters |-> [i \in 1..Len(defs) |-> RowOf(defs[i], dcols)], def_columns |-> dcols,
     non_defaulters |-> [i \in 1..Len(nons) |-> RowOf(nons[i], ncols)], non_columns |-> ncols,
     config |-> cfg]

\* The datasets of the option and column scenarios.
DefaulterByCin(cin) == CHOOSE p \in DefaulterProfiles : p.cin = cin
NonDefaulterByCin(cin) == CHOOSE p \in NonDefaulterProfiles : p.cin = cin

FewDefaulters ==
    { <<>>, <<DefaulterByCin("L27100MH1995PLC084207"), DefaulterByCin("U1")>>,
      <<DefaulterByCin(""), DefaulterByCin(" l5 ")>> }
FewNonDefaulters ==
    { <<>>, <<NonDefaulterByCin("l99"), NonDefaulterByCin("U2")>>, <<NonDefaulterByCin("")>> }

ColumnVariants ==
    { <<AllDefColumns \ {"sector"}, AllNonColumns>>,
      <<AllDefColumns, AllNonColumns \ {"cin"}>>,
      <<AllDefColumns \ {"company_name", "cin"}, AllNonColumns \ {"sector"}>>,
      <<{"company_name", "cin", "sector"}, {"company_name", "cin", "sector"}>>,
      <<AllDefColumns \ {"fy_before_default"}, AllNonColumns>> }

Scenarios ==
    {Dataset(d, AllDefColumns, n, AllNonColumns, c) :
        d \in SeqsUpTo(DefaulterProfiles, MaxDefaulters),
        n \in SeqsUpTo(NonDefaulterProfiles, MaxNonDefaulters),
        c \in DataConfigs}
    \cup {Dataset(d, AllDefColumns, n, AllNonColumns, c) :
        d \in FewDefaulters, n \in FewNonDefaulters, c \in OptionConfigs}
    \cup {Dataset(d, cols[1], n, cols[2], Config(<<>>, <<>>, <<>>, <<>>, BaseDocuments)) :
        d \in FewDefaulters, n \in FewNonDefaulters, cols \in ColumnVariants}


(***************************************************************************)
(* build_plan, step by step.                                               *)
(***************************************************************************)
Init ==
    /\ \E sc \in Scenarios :
          /\ defaulters = sc.defaulters
          /\ def_columns = sc.def_columns
          /\ non_defaulters = sc.non_defaulters
          /\ non_columns = sc.non_columns
          /\ config = sc.config
    /\ pc = "start"
    /\ error = ""
    /\ lookback_years = 0
    /\ default_anchor = 0
    /\ year_order = ""
    /\ listed_prefixes = <<>>
    /\ priority_listed = <<>>
    /\ priority_unlisted = <<>>
    /\ required_docs = <<>>
    /\ optional_docs = <<>>
    /\ def_with_anchor = <<>>
    /\ global_median = None
    /\ sector_medians = <<>>
    /\ idx = 0
    /\ plan_rows = <<>>
    /\ plan = None
    /\ emitted = <<>>
    /\ FunctionsIdle
    /\ PipelineIdle
    /\ ResolverIdle

REQUIRED_COLUMNS == <<"company_name", "cin", "sector">>

\* ensure_columns(df, required, label): the missing columns, in order.
MissingColumns(columns) == SelectSeq(REQUIRED_COLUMNS, LAMBDA c : c \notin columns)

\* The checks with the document lists rejected only when both are empty.
ConfigCheck_BothListsEmpty ==
    LET order == Lower(Strip(CfgGet(config.general, "year_order", "desc")))
    IN  IF Len(MissingColumns(def_columns)) > 0 THEN "defaulters missing required column(s)"
        ELSE IF Len(MissingColumns(non_columns)) > 0 THEN "non_defaulters missing required column(s)"
        ELSE IF order \notin {"asc", "desc"} THEN "general.year_order must be 'asc' or 'desc'"
        ELSE IF Len(CfgGet(config.documents, "required", <<>>)) = 0
                /\ Len(CfgGet(config.documents, "optional", <<>>)) = 0
        THEN "documents.required cannot be empty"
        ELSE ""

\* The checks of build_plan before any row is touched: "" or the error they raise.
ConfigCheck ==
    LET order == Lower(Strip(CfgGet(config.general, "year_order", "desc")))
    IN  IF Len(MissingColumns(def_columns)) > 0 THEN "defaulters missing required column(s)"
        ELSE IF Len(MissingColumns(non_columns)) > 0 THEN "non_defaulters missing required column(s)"
        ELSE IF order \notin {"asc", "desc"} THEN "general.year_order must be 'asc' or 'desc'"
        ELSE IF Len(CfgGet(config.documents, "required", <<>>)) = 0
        THEN "documents.required cannot be empty"
        ELSE ""

\* The phase entered when a loop is about to start: an empty loop is skipped.
EnterAppendNon == IF Len(non_defaulters) = 0 THEN "sort" ELSE "append_non_defaulters"
EnterAppendDef == IF Len(defaulters) = 0 THEN EnterAppendNon ELSE "append_defaulters"
\* The sector loop skipped.
EnterSectors_Skipped(dwa) == EnterAppendDef
EnterSectors(dwa) == IF Len(SectorGroups(dwa)) = 0 THEN EnterAppendDef ELSE "sector_medians"
EnterResolve == IF Len(defaulters) = 0 THEN "aggregate" ELSE "resolve_defaulters"

\* Lines 156-178 raise ValueError.
RaiseConfigError ==
    /\ pc = "start"
    /\ ConfigCheck # ""
    /\ pc' = "error"
    /\ error' = ConfigCheck
    /\ UNCHANGED <<inputs, locals, def_with_anchor, global_median, sector_medians, idx,
                   plan_rows, plan, emitted>>
    /\ UNCHANGED <<functionVars, pipelineVars, resolverVars>>

\* Lines 156-183 pass: the settings are read and the defaulters copied.
Configure ==
    /\ pc = "start"
    /\ ConfigCheck = ""
    /\ lookback_years' = CfgGet(config.general, "lookback_years", 3)
    /\ default_anchor' = CfgGet(config.general, "default_anchor_fy", 2023)
    /\ year_order' = Lower(Strip(CfgGet(config.general, "year_order", "desc")))
    /\ listed_prefixes' = CfgGet(config.sources, "listed_cin_prefixes", <<"L">>)
    /\ priority_listed' = CfgGet(config.sources, "priority_listed", <<"bse", "nse", "mca">>)
    /\ priority_unlisted' = CfgGet(config.sources, "priority_unlisted", <<"mca">>)
    /\ required_docs' = CfgGet(config.documents, "required", <<>>)
    /\ optional_docs' = CfgGet(config.documents, "optional", <<>>)
    /\ def_with_anchor' = [i \in 1..Len(defaulters) |->
                              [row |-> defaulters[i], anchor_fy |-> None, anchor_reason |-> ""]]
    /\ idx' = 1
    /\ pc' = EnterResolve
    /\ emitted' = [i \in 1..(Len(defaulters) + Len(non_defaulters)) |-> <<>>]
    /\ UNCHANGED <<inputs, error, global_median, sector_medians, plan_rows, plan>>
    /\ UNCHANGED <<functionVars, pipelineVars, resolverVars>>

\* Lines 185-188 resolving every defaulter from the first row of the frame.
ResolveDefaulter_FromFirst ==
    /\ pc = "resolve_defaulters"
    /\ LET res == infer_defaulter_anchor(def_with_anchor[1], config.defaulters, default_anchor)
       IN  def_with_anchor' = [def_with_anchor EXCEPT ![idx].anchor_fy = Some(res[1]),
                                                      ![idx].anchor_reason = res[2]]
    /\ idx' = idx + 1
    /\ pc' = IF idx = Len(def_with_anchor) THEN "aggregate" ELSE pc
    /\ UNCHANGED <<inputs, locals, error, global_median, sector_medians, plan_rows, plan, emitted>>
    /\ UNCHANGED <<functionVars, pipelineVars, resolverVars>>

\* Lines 185-188 writing the anchor columns into the caller's frame, as without the copy of
\* line 181.
ResolveDefaulter_InPlace ==
    /\ pc = "resolve_defaulters"
    /\ LET res == infer_defaulter_anchor(def_with_anchor[idx], config.defaulters, default_anchor)
           row == defaulters[idx]
       IN  /\ def_with_anchor' = [def_with_anchor EXCEPT ![idx].anchor_fy = Some(res[1]),
                                                         ![idx].anchor_reason = res[2]]
           /\ defaulters' = [defaulters EXCEPT ![idx] =
                                [c \in DOMAIN row \cup {"anchor_fy", "anchor_reason"} |->
                                    IF c = "anchor_fy" THEN FormatNat(res[1])
                                    ELSE IF c = "anchor_reason" THEN res[2]
                                    ELSE row[c]]]
    /\ idx' = idx + 1
    /\ pc' = IF idx = Len(def_with_anchor) THEN "aggregate" ELSE pc
    /\ UNCHANGED <<def_columns, non_defaulters, non_columns, config, locals, error,
                   global_median, sector_medians, plan_rows, plan, emitted>>
    /\ UNCHANGED <<functionVars, pipelineVars, resolverVars>>

\* Lines 185-188, one iteration.
ResolveDefaulter ==
    /\ pc = "resolve_defaulters"
    /\ LET res == infer_defaulter_anchor(def_with_anchor[idx], config.defaulters, default_anchor)
       IN  def_with_anchor' = [def_with_anchor EXCEPT ![idx].anchor_fy = Some(res[1]),
                                                      ![idx].anchor_reason = res[2]]
    /\ idx' = idx + 1
    /\ pc' = IF idx = Len(def_with_anchor) THEN "aggregate" ELSE pc
    /\ UNCHANGED <<inputs, locals, error, global_median, sector_medians, plan_rows, plan, emitted>>
    /\ UNCHANGED <<functionVars, pipelineVars, resolverVars>>

\* Lines 190-193.
AggregateGlobal ==
    /\ pc = "aggregate"
    /\ global_median' = Some(median_or_fallback(ValidAnchors(def_with_anchor), default_anchor))
    /\ sector_medians' = <<>>
    /\ idx' = 1
    /\ pc' = EnterSectors(def_with_anchor)
    /\ UNCHANGED <<inputs, locals, error, def_with_anchor, plan_rows, plan, emitted>>
    /\ UNCHANGED <<functionVars, pipelineVars, resolverVars>>

\* d with d[key] = value
DictSet(d, key, value) == [k \in DOMAIN d \cup {key} |-> IF k = key THEN value ELSE d[k]]

\* Lines 194-199, one iteration.
AggregateSector ==
    /\ pc = "sector_medians"
    /\ LET sector == SectorGroups(def_with_anchor)[idx]
           vals == GroupAnchors(def_with_anchor, sector)
           sector_key == Strip(sector)
       IN  sector_medians' =
               IF Len(sector_key) = 0 THEN sector_medians
               ELSE DictSet(sector_medians, sector_key,
                            median_or_fallback(vals, TheValue(global_median)))
    /\ idx' = IF idx = Len(SectorGroups(def_with_anchor)) THEN 1 ELSE idx + 1
    /\ pc' = IF idx = Len(SectorGroups(def_with_anchor)) THEN EnterAppendDef ELSE pc
    /\ UNCHANGED <<inputs, locals, error, def_with_anchor, global_median, plan_rows, plan, emitted>>
    /\ UNCHANGED <<functionVars, pipelineVars, resolverVars>>

\* Lines 236-237, one iteration.
AppendDefaulter ==
    /\ pc = "append_defaulters"
    /\ LET d == def_with_anchor[idx]
           rows == append_company_rows(d.row, "defaulter", TheValue(d.anchor_fy), d.anchor_reason,
                                       lookback_years, year_order, listed_prefixes,
                                       priority_listed, priority_unlisted,
                                       required_docs, optional_docs)
       IN  /\ plan_rows' = plan_rows \o rows
           /\ emitted' = [emitted EXCEPT ![idx] = rows]
    /\ idx' = IF idx = Len(def_with_anchor) THEN 1 ELSE idx + 1
    /\ pc' = IF idx = Len(def_with_anchor) THEN EnterAppendNon ELSE pc
    /\ UNCHANGED <<inputs, locals, error, def_with_anchor, global_median, sector_medians, plan>>
    /\ UNCHANGED <<functionVars, pipelineVars, resolverVars>>

\* Lines 239-241 passing the cohort label of the defaulter loop.
AppendNonDefaulter_AsDefaulter ==
    /\ pc = "append_non_defaulters"
    /\ LET row == non_defaulters[idx]
           res == infer_non_defaulter_anchor(row, config.non_defaulters, default_anchor,
                                             sector_medians, TheValue(global_median))
           rows == append_company_rows(row, "defaulter", res[1], res[2],
                                       lookback_years, year_order, listed_prefixes,
                                       priority_listed, priority_unlisted,
                                       required_docs, optional_docs)
       IN  /\ plan_rows' = plan_rows \o rows
           /\ emitted' = [emitted EXCEPT ![Len(defaulters) + idx] = rows]
    /\ idx' = idx + 1
    /\ pc' = IF idx = Len(non_defaulters) THEN "sort" ELSE pc
    /\ UNCHANGED <<inputs, locals, error, def_with_anchor, global_median, sector_medians, plan>>
    /\ UNCHANGED <<functionVars, pipelineVars, resolverVars>>

\* Lines 239-241, one iteration.
AppendNonDefaulter ==
    /\ pc = "append_non_defaulters"
    /\ LET row == non_defaulters[idx]
           res == infer_non_defaulter_anchor(row, config.non_defaulters, default_anchor,
                                             sector_medians, TheValue(global_median))
           rows == append_company_rows(row, "non_defaulter", res[1], res[2],
                                       lookback_years, year_order, listed_prefixes,
                                       priority_listed, priority_unlisted,
                                       required_docs, optional_docs)
       IN  /\ plan_rows' = plan_rows \o rows
           /\ emitted' = [emitted EXCEPT ![Len(defaulters) + idx] = rows]
    /\ idx' = idx + 1
    /\ pc' = IF idx = Len(non_defaulters) THEN "sort" ELSE pc
    /\ UNCHANGED <<inputs, locals, error, def_with_anchor, global_median, sector_medians, plan>>
    /\ UNCHANGED <<functionVars, pipelineVars, resolverVars>>

\* Lines 243-250 when plan_rows is empty: the frame has no columns to sort by.
SortRaises ==
    /\ pc = "sort"
    /\ Len(plan_rows) = 0
    /\ pc' = "error"
    /\ error' = "KeyError"
    /\ UNCHANGED <<inputs, locals, def_with_anchor, global_median, sector_medians, idx,
                   plan_rows, plan, emitted>>
    /\ UNCHANGED <<functionVars, pipelineVars, resolverVars>>

\* Lines 243-250.
SortAndReturn ==
    /\ pc = "sort"
    /\ Len(plan_rows) > 0
    /\ plan' = Some(sort_values(plan_rows))
    /\ pc' = "done"
    /\ UNCHANGED <<inputs, locals, error, def_with_anchor, global_median, sector_medians, idx,
                   plan_rows, emitted>>
    /\ UNCHANGED <<functionVars, pipelineVars, resolverVars>>

Next ==
    \/ RaiseConfigError
    \/ Configure
    \/ ResolveDefaulter
    \/ AggregateGlobal
    \/ AggregateSector
    \/ AppendDefaulter
    \/ AppendNonDefaulter
    \/ SortRaises
    \/ SortAndReturn

Spec == Init /\ [][Next]_vars


(***************************************************************************)
(* Vocabulary of the properties.                                           *)
(***************************************************************************)
Range(seq) == {seq[i] : i \in 1..Len(seq)}

ConfiguredRequired == CfgGet(config.documents, "required", <<>>)
ConfiguredOptional == CfgGet(config.documents, "optional", <<>>)
ConfiguredDocs == ConfiguredRequired \o ConfiguredOptional
ConfiguredLookback == CfgGet(config.general, "lookback_years", 3)
ConfiguredFallback == CfgGet(config.general, "default_anchor_fy", 2023)

\* Record r (defaulters first, then non-defaulters) has been through append_company_rows.
Appended(r) ==
    IF r <= Len(defaulters)
    THEN \/ pc = "append_defaulters" /\ r < idx
         \/ pc \in {"append_non_defaulters", "sort", "done"}
         \/ pc = "error" /\ error = "KeyError"
    ELSE \/ pc = "append_non_defaulters" /\ r - Len(defaulters) < idx
         \/ pc \in {"sort", "done"}
         \/ pc = "error" /\ error = "KeyError"

Records == 1..Len(emitted)

\* Number of positions of seq that satisfy test.
CountWhere(seq, test(_)) == Cardinality({i \in 1..Len(seq) : test(seq[i])})

(***************************************************************************)
(* C1: in build_plan every defaulter anchor is resolved and both           *)
(* aggregates, global_median and the whole sector_medians table, are       *)
(* computed before infer_non_defaulter_anchor runs for the first           *)
(* non-defaulter; from then on neither aggregate is written again.         *)
(***************************************************************************)
DefaultersAggregated ==
    /\ Len(def_with_anchor) = Len(defaulters)
    /\ \A i \in 1..Len(def_with_anchor) : def_with_anchor[i].anchor_fy # None
    /\ global_median # None
    /\ \A i \in 1..Len(defaulters) :
          Len(Strip(defaulters[i]["sector"])) > 0
              => Strip(defaulters[i]["sector"]) \in DOMAIN sector_medians

NonDefaultersStarted == pc \in {"append_non_defaulters", "sort", "done"}

C1_AggregateBarrier ==
    /\ [](pc = "append_non_defaulters" => DefaultersAggregated)
    /\ [][NonDefaultersStarted =>
            UNCHANGED <<def_with_anchor, global_median, sector_medians>>]_vars

C1_Witness ==
    /\ pc = "append_non_defaulters"
    /\ idx = 2
    /\ Len(defaulters) = 2
    /\ Cardinality(DOMAIN sector_medians) >= 1
    /\ Len(emitted[Len(defaulters) + 1]) > 0

(***************************************************************************)
(* C2: the returned plan is ordered by cohort ascending, company_name      *)
(* ascending, target_fy descending, required rows before optional rows,    *)
(* doc_type ascending: each row is at most its successor under this        *)
(* lexicographic key, also when year_order is 'asc'.                       *)
(***************************************************************************)
StrLeq(a, b) == a = b \/ StrLess(a, b)

PlanOrderLeq(a, b) ==
    \/ StrLess(a.cohort, b.cohort)
    \/ /\ a.cohort = b.cohort
       /\ \/ StrLess(a.company_name, b.company_name)
          \/ /\ a.company_name = b.company_name
             /\ \/ a.target_fy > b.target_fy
                \/ /\ a.target_fy = b.target_fy
                   /\ \/ a.required /\ ~b.required
                      \/ a.required = b.required /\ StrLeq(a.doc_type, b.doc_type)

C2_PlanSorted ==
    pc = "done" =>
        LET p == TheValue(plan)
        IN  \A i \in 1..(Len(p) - 1) : PlanOrderLeq(p[i], p[i + 1])

C2_Witness ==
    /\ pc = "done"
    /\ year_order = "asc"
    /\ lookback_years >= 2
    /\ LET p == TheValue(plan)
       IN  /\ \E i, j \in 1..Len(p) : p[i].cohort # p[j].cohort
           /\ \E i, j \in 1..Len(p) : p[i].cohort = p[j].cohort /\ p[i].company_name # p[j].company_name
           /\ \E i, j \in 1..Len(p) : p[i].required /\ ~p[j].required
           /\ p # plan_rows

(***************************************************************************)
(* C3: with lookback_years N >= 1 every input record of either cohort gets *)
(* exactly N * (len(required_docs) + len(optional_docs)) job rows, one per *)
(* (target year, document-list entry) pair, whatever strategy or fallback  *)
(* produced its anchor.                                                    *)
(***************************************************************************)
C3_RowsPerRecord ==
    \A r \in Records :
        Appended(r) /\ ConfiguredLookback >= 1 =>
            /\ Len(emitted[r]) = ConfiguredLookback * (Len(ConfiguredRequired) + Len(ConfiguredOptional))
            /\ Cardinality({emitted[r][i].target_fy : i \in 1..Len(emitted[r])}) = ConfiguredLookback
            /\ \A y \in {emitted[r][i].target_fy : i \in 1..Len(emitted[r])} :
                  \A k \in 1..Len(ConfiguredDocs) :
                      LET hit(row) == row.target_fy = y /\ row.doc_type = ConfiguredDocs[k]
                          same(doc) == doc = ConfiguredDocs[k]
                      IN  CountWhere(emitted[r], hit) = CountWhere(ConfiguredDocs, same)

C3_Witness ==
    /\ pc = "done"
    /\ ConfiguredLookback = 1
    /\ ConfiguredRequired = <<"annual_report">>
    /\ ConfiguredOptional = <<"board_report">>
    /\ \E r \in Records :
          /\ Len(emitted[r]) = 2
          /\ emitted[r][1].anchor_reason = "fallback_default_anchor_fy"
    /\ \E r \in Records : emitted[r][1].anchor_reason = "sector_median_from_defaulters"

(***************************************************************************)
(* C4: the job rows emitted for one input record never hold two rows with  *)
(* the same (cohort, company_name, target_fy, doc_type), for every         *)
(* accepted configuration, also when a doc type is repeated in a document  *)
(* list or is in both documents.required and documents.optional.           *)
(***************************************************************************)
JobKey(row) == <<row.cohort, row.company_name, row.target_fy, row.doc_type>>

C4_NoDuplicateKeyPerRecord ==
    \A r \in Records :
        \A i, j \in 1..Len(emitted[r]) :
            i # j => JobKey(emitted[r][i]) # JobKey(emitted[r][j])

(***************************************************************************)
(* C5: in the whole returned plan (company_name, target_fy, doc_type)      *)
(* identifies at most one row, also when a company name is in both the     *)
(* defaulter and the non-defaulter cohort.                                 *)
(***************************************************************************)
ResumeKey(row) == <<row.company_name, row.target_fy, row.doc_type>>

C5_ResumeKeyUnique ==
    pc = "done" =>
        LET p == TheValue(plan)
        IN  \A i, j \in 1..Len(p) : i # j => ResumeKey(p[i]) # ResumeKey(p[j])

(***************************************************************************)
(* C6: in every emitted job row required is true iff doc_type is in the    *)
(* configured documents.required list and false iff it is in               *)
(* documents.optional.                                                     *)
(***************************************************************************)
C6_RequiredMatchesMembership ==
    \A i \in 1..Len(plan_rows) :
        /\ plan_rows[i].required <=> plan_rows[i].doc_type \in Range(ConfiguredRequired)
        /\ (~plan_rows[i].required) <=> plan_rows[i].doc_type \in Range(ConfiguredOptional)

(***************************************************************************)
(* C7: every anchor year produced by infer_defaulter_anchor or             *)
(* infer_non_defaulter_anchor, hence every anchor_fy of the plan, is an    *)
(* integer in [1900, 2100] for every record and accepted configuration.    *)
(***************************************************************************)
InYearRange(y) == 1900 <= y /\ y <= 2100

C7_AnchorInRange ==
    /\ \A i \in 1..Len(def_with_anchor) :
          def_with_anchor[i].anchor_fy # None => InYearRange(TheValue(def_with_anchor[i].anchor_fy))
    /\ \A i \in 1..Len(plan_rows) : InYearRange(plan_rows[i].anchor_fy)

(***************************************************************************)
(* C8: median_or_fallback returns the median of the anchors rounded to the *)
(* nearest integer with ties rounded half up: two middle values m1 <= m2   *)
(* with an odd sum give (m1 + m2 + 1) / 2, so {2018, 2019} gives 2019.     *)
(***************************************************************************)
RoundHalfUp(twice) == (twice + 1) \div 2

C8_MedianHalfUp ==
    global_median # None /\ Len(def_with_anchor) > 0 =>
        TheValue(global_median) = RoundHalfUp(TwiceMedian(ValidAnchors(def_with_anchor)))

(***************************************************************************)
(* C9: in the default defaulter mode infer_defaulter_anchor applies a      *)
(* strict precedence: the fy_before_default field if it parses (reason the *)
(* field name), else default_year + default_year_offset (reason the field  *)
(* name followed by the signed offset), else the fallback anchor with      *)
(* reason 'fallback_default_anchor_fy'; default_year '2020' with an empty  *)
(* fy_before_default and offset -1 gives (2019, 'default_year-1').         *)
(***************************************************************************)
DefaulterMode == Lower(Strip(CfgGet(config.defaulters, "anchor_mode", "")))
FyColumn == CfgGet(config.defaulters, "fy_before_default_column", "fy_before_default")
DefaultYearColumn == CfgGet(config.defaulters, "default_year_column", "default_year")
ConfiguredOffset == CfgGet(config.defaulters, "default_year_offset", -1)

C9_DefaultModePrecedence ==
    \A i \in 1..Len(def_with_anchor) :
        LET d == def_with_anchor[i]
            fy == parse_year(RowGet(defaulters[i], FyColumn))
            dy == parse_year(RowGet(defaulters[i], DefaultYearColumn))
        IN  d.anchor_fy # None /\ DefaulterMode \notin {"fixed_year", "column"} =>
                /\ fy # None =>
                      d.anchor_fy = fy /\ d.anchor_reason = FyColumn
                /\ fy = None /\ dy # None =>
                      /\ TheValue(d.anchor_fy) = TheValue(dy) + ConfiguredOffset
                      /\ d.anchor_reason = DefaultYearColumn \o FormatSigned(ConfiguredOffset)
                /\ fy = None /\ dy = None =>
                      /\ TheValue(d.anchor_fy) = ConfiguredFallback
                      /\ d.anchor_reason = "fallback_default_anchor_fy"
                /\ ( /\ RowGet(defaulters[i], "default_year") = Some("2020")
                     /\ RowGet(defaulters[i], "fy_before_default") = Some("")
                     /\ config.defaulters = [default_year_offset |-> -1] ) =>
                      d.anchor_fy = Some(2019) /\ d.anchor_reason = "default_year-1"

C9_Witness ==
    /\ pc = "aggregate"
    /\ config.defaulters = [default_year_offset |-> -1]
    /\ \E i \in 1..Len(def_with_anchor) :
          /\ defaulters[i]["default_year"] = "2020"
          /\ defaulters[i]["fy_before_default"] = ""
          /\ def_with_anchor[i].anchor_reason = "default_year-1"
    /\ \E i \in 1..Len(def_with_anchor) :
          /\ defaulters[i]["default_year"] = "2021"
          /\ def_with_anchor[i].anchor_fy = Some(2018)
          /\ def_with_anchor[i].anchor_reason = "fy_before_default"

(***************************************************************************)
(* C10: build_plan fails with a configuration error and produces no job    *)
(* row (no anchor resolved, no row appended) whenever a required input     *)
(* column (company_name, cin, sector) is missing from either cohort,       *)
(* general.year_order is neither 'asc' nor 'desc', or documents.required   *)
(* is empty, in particular when both document lists are empty.             *)
(***************************************************************************)
ConfigurationErrors ==
    { "defaulters missing required column(s)", "non_defaulters missing required column(s)",
      "general.year_order must be 'asc' or 'desc'", "documents.required cannot be empty" }

BadConfiguration ==
    \/ \E c \in {"company_name", "cin", "sector"} : c \notin def_columns \/ c \notin non_columns
    \/ Lower(Strip(CfgGet(config.general, "year_order", "desc"))) \notin {"asc", "desc"}
    \/ "required" \notin DOMAIN config.documents
    \/ Len(config.documents["required"]) = 0

NothingProduced ==
    /\ plan_rows = <<>>
    /\ plan = None
    /\ \A i \in 1..Len(def_with_anchor) : def_with_anchor[i].anchor_fy = None
    /\ global_median = None

C10_ConfigurationErrorFailsFast ==
    /\ [](BadConfiguration =>
            /\ pc \in {"start", "error"}
            /\ pc = "error" => error \in ConfigurationErrors
            /\ NothingProduced)
    /\ [][BadConfiguration /\ pc = "start" => pc' = "error"]_vars

C10_Witness ==
    /\ pc = "error"
    /\ error = "documents.required cannot be empty"
    /\ Len(ConfiguredOptional) > 0
    /\ Len(defaulters) > 0
    /\ Len(non_defaulters) > 0

(***************************************************************************)
(* C11: for every configuration that passes the configuration checks and   *)
(* cohorts of any size, an empty defaulter cohort, an empty non-defaulter  *)
(* cohort or both included, with arbitrary blank or unparsable fields,     *)
(* build_plan returns a plan without raising: only configuration errors    *)
(* reach the caller.                                                       *)
(***************************************************************************)
C11_OnlyConfigurationErrorsRaise ==
    /\ pc = "error" => error \in ConfigurationErrors
    /\ ~BadConfiguration => pc # "error"

(***************************************************************************)
(* C12: years_from_anchor(anchor, N, order) with N >= 1 returns exactly N  *)
(* pairwise distinct years with maximum anchor and minimum anchor - (N-1), *)
(* strictly decreasing for 'desc' and strictly increasing for 'asc'.       *)
(***************************************************************************)
\* The window append_company_rows walked for record r: the target year of the first row of
\* each block of document rows.
YearsOf(r) ==
    [j \in 1..(Len(emitted[r]) \div Len(ConfiguredDocs)) |->
        emitted[r][(j - 1) * Len(ConfiguredDocs) + 1].target_fy]

C12_YearWindow ==
    \A r \in Records :
        Appended(r) /\ ConfiguredLookback >= 1 =>
            LET years == YearsOf(r)
                anchor == emitted[r][1].anchor_fy
            IN  /\ Len(years) = ConfiguredLookback
                /\ Cardinality(Range(years)) = ConfiguredLookback
                /\ anchor \in Range(years)
                /\ \A y \in Range(years) : anchor - (ConfiguredLookback - 1) <= y /\ y <= anchor
                /\ (anchor - (ConfiguredLookback - 1)) \in Range(years)
                /\ year_order = "desc" => \A j \in 1..(Len(years) - 1) : years[j] > years[j + 1]
                /\ year_order = "asc" => \A j \in 1..(Len(years) - 1) : years[j] < years[j + 1]

C12_Witness ==
    /\ pc = "sort"
    /\ year_order = "asc"
    /\ ConfiguredLookback >= 2
    /\ \E r \in Records : YearsOf(r)[1] < YearsOf(r)[2] /\ YearsOf(r)[1] = 2018

(***************************************************************************)
(* C13: after aggregation, sector_medians has a key S exactly when S is    *)
(* the non-empty trimmed sector of some defaulter, and sector_medians[S]   *)
(* is the rounded median of the anchors of exactly the defaulters whose    *)
(* trimmed sector is S, also when sector values differ only by             *)
(* surrounding whitespace.                                                 *)
(***************************************************************************)
AggregationDone ==
    \/ pc \in {"append_defaulters", "append_non_defaulters", "sort", "done"}
    \/ pc = "error" /\ error = "KeyError"

TrimmedSectors ==
    {Strip(defaulters[i]["sector"]) : i \in 1..Len(defaulters)} \ {""}

\* The anchors of the defaulters whose trimmed sector is S, in record order.
TrimmedSectorAnchors(S) ==
    AnchorsOf(def_with_anchor,
              {def_with_anchor[i].row["sector"] :
                  i \in {k \in 1..Len(def_with_anchor) :
                            Strip(def_with_anchor[k].row["sector"]) = S}},
              1)

C13_SectorMediansByTrimmedSector ==
    AggregationDone =>
        /\ DOMAIN sector_medians = TrimmedSectors
        /\ \A S \in DOMAIN sector_medians :
              sector_medians[S] =
                  median_or_fallback(TrimmedSectorAnchors(S), TheValue(global_median))

(***************************************************************************)
(* C14: with an empty defaulter cohort, global_median is the configured    *)
(* general.default_anchor_fy, sector_medians is empty, and every           *)
(* non-defaulter resolved in a median-based mode gets default_anchor_fy    *)
(* as its anchor.                                                          *)
(***************************************************************************)
NonDefaulterMode ==
    Lower(Strip(CfgGet(config.non_defaulters, "anchor_mode", "sector_median_from_defaulters")))

MedianBasedMode == NonDefaulterMode \notin {"fixed_year", "column"}

C14_EmptyCohortFallsBack ==
    Len(defaulters) = 0 /\ global_median # None =>
        /\ global_median = Some(ConfiguredFallback)
        /\ DOMAIN sector_medians = {}
        /\ \A r \in Records :
              Appended(r) /\ MedianBasedMode =>
                  /\ Len(emitted[r]) > 0
                  /\ \A k \in 1..Len(emitted[r]) : emitted[r][k].anchor_fy = ConfiguredFallback

C14_Witness ==
    /\ pc = "sort"
    /\ Len(defaulters) = 0
    /\ Len(non_defaulters) = 2
    /\ ConfiguredFallback = 2200
    /\ MedianBasedMode
    /\ global_median = Some(2200)
    /\ emitted[2][1].anchor_fy = 2200

(***************************************************************************)
(* C15: in the default non-defaulter mode, a record whose sector (trimmed, *)
(* after one application of the sector_aliases remapping) is empty or is   *)
(* not a key of sector_medians gets anchor = global_median with reason     *)
(* 'global_median_from_defaulters', also when an alias remaps the record's *)
(* sector to a sector without defaulter data.                              *)
(***************************************************************************)
DefaultNonDefaulterMode ==
    NonDefaulterMode \notin {"fixed_year", "column", "global_median_from_defaulters"}

NonDefaulterRecords == {r \in Records : r > Len(defaulters)}

\* The trimmed sector of non-defaulter record r as its row carries it.
RawSector(r) ==
    LET row == non_defaulters[r - Len(defaulters)]
    IN  Strip(IF "sector" \in DOMAIN row THEN row["sector"] ELSE "")

ConfiguredAliases == CfgGet(config.non_defaulters, "sector_aliases", <<>>)

\* The sector of non-defaulter record r after one application of the remapping.
AliasedSector(r) ==
    Strip(IF RawSector(r) \in DOMAIN ConfiguredAliases
          THEN ConfiguredAliases[RawSector(r)]
          ELSE RawSector(r))

AnchoredBy(r, anchor, reason) ==
    /\ Len(emitted[r]) > 0
    /\ \A k \in 1..Len(emitted[r]) :
          emitted[r][k].anchor_fy = anchor /\ emitted[r][k].anchor_reason = reason

C15_MissingSectorGetsGlobalMedian ==
    \A r \in NonDefaulterRecords :
        /\ Appended(r)
        /\ DefaultNonDefaulterMode
        /\ AliasedSector(r) = "" \/ AliasedSector(r) \notin DOMAIN sector_medians
        => AnchoredBy(r, TheValue(global_median), "global_median_from_defaulters")

C15_Witness ==
    /\ pc = "sort"
    /\ DefaultNonDefaulterMode
    /\ \E r \in NonDefaulterRecords :
          /\ RawSector(r) \in DOMAIN sector_medians
          /\ AliasedSector(r) = "Metals"
          /\ AliasedSector(r) \notin DOMAIN sector_medians
          /\ emitted[r][1].anchor_reason = "global_median_from_defaulters"
          /\ emitted[r][1].anchor_fy # sector_medians[RawSector(r)]

(***************************************************************************)
(* C16: in the default non-defaulter mode, a record whose sector (trimmed, *)
(* after the sector_aliases remapping) is a key of sector_medians gets     *)
(* anchor = sector_medians[sector] with reason                             *)
(* 'sector_median_from_defaulters'; the alias is looked up for the         *)
(* record's own sector and the alias target, not the raw sector, is the    *)
(* key looked up.                                                          *)
(***************************************************************************)
C16_KnownSectorGetsSectorMedian ==
    \A r \in NonDefaulterRecords :
        /\ Appended(r)
        /\ DefaultNonDefaulterMode
        /\ AliasedSector(r) # ""
        /\ AliasedSector(r) \in DOMAIN sector_medians
        => AnchoredBy(r, sector_medians[AliasedSector(r)], "sector_median_from_defaulters")

C16_Witness ==
    /\ pc = "sort"
    /\ DefaultNonDefaulterMode
    /\ sector_medians = [Steel |-> 2018]
    /\ \E r \in NonDefaulterRecords :
          /\ RawSector(r) = "Metals"
          /\ AliasedSector(r) = "Steel"
          /\ emitted[r][1].anchor_fy = 2018
          /\ emitted[r][1].anchor_fy # TheValue(global_median)

(***************************************************************************)
(* C18: the anchor and reason resolved for a defaulter depend only on that *)
(* record's own fields and the configuration: they are what the resolver   *)
(* gives for the record alone, so are its emitted job rows, and two        *)
(* defaulters with equal fields get equal anchors, reasons and rows        *)
(* whatever the other defaulter and non-defaulter records are.             *)
(***************************************************************************)
\* The resolution of defaulter i from its own row and the configuration alone.
OwnResolution(i) ==
    infer_defaulter_anchor([row |-> defaulters[i], anchor_fy |-> None, anchor_reason |-> ""],
                           config.defaulters, ConfiguredFallback)

\* The job rows of defaulter i from its own row and the configuration alone.
OwnRows(i) ==
    append_company_rows(defaulters[i], "defaulter", OwnResolution(i)[1], OwnResolution(i)[2],
                        ConfiguredLookback, year_order, listed_prefixes,
                        priority_listed, priority_unlisted, required_docs, optional_docs)

Resolved(i) == i \in 1..Len(def_with_anchor) /\ def_with_anchor[i].anchor_fy # None

C18_DefaulterResolvedAlone ==
    \A i \in 1..Len(defaulters) :
        /\ Resolved(i) =>
              /\ def_with_anchor[i].anchor_fy = Some(OwnResolution(i)[1])
              /\ def_with_anchor[i].anchor_reason = OwnResolution(i)[2]
              /\ \A j \in 1..Len(defaulters) :
                    Resolved(j) /\ defaulters[j] = defaulters[i] =>
                        /\ def_with_anchor[j].anchor_fy = def_with_anchor[i].anchor_fy
                        /\ def_with_anchor[j].anchor_reason = def_with_anchor[i].anchor_reason
        /\ Appended(i) =>
              /\ emitted[i] = OwnRows(i)
              /\ \A j \in 1..Len(defaulters) :
                    Appended(j) /\ defaulters[j] = defaulters[i] => emitted[j] = emitted[i]

C18_Witness ==
    /\ pc = "sort"
    /\ Len(defaulters) = 2
    /\ Len(non_defaulters) >= 1
    /\ defaulters[1] # defaulters[2]
    /\ def_with_anchor[1].anchor_reason # def_with_anchor[2].anchor_reason
    /\ def_with_anchor[2].anchor_fy = Some(OwnResolution(2)[1])
    /\ emitted[2] = OwnRows(2)
    /\ emitted[2][1].anchor_fy # emitted[1][1].anchor_fy

(***************************************************************************)
(* C19: build_plan does not modify its inputs: whether it returns or       *)
(* raises, the defaulter dataset, the non-defaulter dataset and the        *)
(* configuration mapping with its document and priority lists keep the     *)
(* values they had before the call, and no already-appended job row is     *)
(* changed by the appending of later rows.                                 *)
(***************************************************************************)
AppendedRowsKept ==
    /\ Len(plan_rows') >= Len(plan_rows)
    /\ \A k \in 1..Len(plan_rows) : plan_rows'[k] = plan_rows[k]

C19_InputsUntouched == [][UNCHANGED inputs /\ AppendedRowsKept]_vars

C19_Witness ==
    /\ pc = "done"
    /\ Len(defaulters) = 2
    /\ Len(non_defaulters) = 2
    /\ Len(def_with_anchor) = 2
    /\ def_with_anchor[2].anchor_fy # None
    /\ "anchor_reason" \notin DOMAIN defaulters[2]
    /\ Len(plan_rows) > Len(emitted[1])
    /\ plan_rows[1] = emitted[1][1]

(***************************************************************************)
(* C20: for every job row, is_listed is the classifier's result for the    *)
(* record's identifier, and source_priority is the configured              *)
(* priority_listed list when is_listed is true and the priority_unlisted   *)
(* list otherwise, joined with '|' in the configured order of source tags. *)
(***************************************************************************)
\* The input row of record r (defaulters first, then non-defaulters).
RecordRow(r) ==
    IF r <= Len(defaulters) THEN defaulters[r] ELSE non_defaulters[r - Len(defaulters)]

ConfiguredPrefixes == CfgGet(config.sources, "listed_cin_prefixes", <<"L">>)
ConfiguredPriorityListed == CfgGet(config.sources, "priority_listed", <<"bse", "nse", "mca">>)
ConfiguredPriorityUnlisted == CfgGet(config.sources, "priority_unlisted", <<"mca">>)

RECURSIVE PipeJoined(_)
\* The tags in their configured order with a '|' between neighbours.
PipeJoined(tags) ==
    IF Len(tags) = 0 THEN ""
    ELSE IF Len(tags) = 1 THEN tags[1]
    ELSE PipeJoined(SubSeq(tags, 1, Len(tags) - 1)) \o "|" \o tags[Len(tags)]

C20_SourcePriorityByListing ==
    \A r \in Records :
        Appended(r) =>
            \A k \in 1..Len(emitted[r]) :
                LET job == emitted[r][k]
                IN  /\ job.is_listed = cin_is_listed(RowGet(RecordRow(r), "cin"), ConfiguredPrefixes)
                    /\ job.is_listed => job.source_priority = PipeJoined(ConfiguredPriorityListed)
                    /\ ~job.is_listed => job.source_priority = PipeJoined(ConfiguredPriorityUnlisted)

C20_Witness ==
    /\ pc = "sort"
    /\ \E r \in Records :
          /\ emitted[r][1].is_listed
          /\ emitted[r][1].source_priority = "bse|nse|mca"
    /\ \E r \in Records :
          /\ ~emitted[r][1].is_listed
          /\ emitted[r][1].source_priority = "mca"

(***************************************************************************)
(* parse_year and cin_is_listed called on their own.                       *)
(***************************************************************************)
YearNumbers == {0, 1899, 1900, 2021, 2100, 2101}
Pads == {"", " "}
DecimalSuffixes == {"", ".0"}

\* str() of integers and of floats with no fraction, as cells of a CSV carry them.
NumericTexts ==
    {l \o FormatNat(y) \o suffix \o r : y \in YearNumbers, suffix \in DecimalSuffixes,
                                        l \in Pads, r \in Pads}

MarkerTexts == {"", "  ", "nan", "NaN", "NAN", "na", "NA", "none", "None", "NONE", "-", " - "}

OtherTexts == {"abc", "2021.5", "20x1", "2021.0.0", ".0", "nan.0", "-.0", "-2021", "+2021", "2_021"}

YearValues == {None} \cup {Some(t) : t \in NumericTexts \cup MarkerTexts \cup OtherTexts}

CinValues ==
    {None} \cup {Some(t) : t \in {"", "  ", "L27100MH1995PLC084207", " l27100mh1995plc084207 ",
                                  "U1", " u12 ", "L", "nan"}}

PrefixLists == {<<"L">>, <<>>, <<"l", "U1">>, <<"u1", "L2">>, <<"">>, <<" L">>}

FunctionInit ==
    /\ year_value \in YearValues
    /\ year_result = None
    /\ cin_value \in CinValues
    /\ cin_prefixes \in PrefixLists
    /\ listed_result = FALSE
    /\ returned = {}
    /\ pc = "idle" /\ error = "" /\ idx = 0
    /\ defaulters = <<>> /\ def_columns = {} /\ non_defaulters = <<>> /\ non_columns = {}
    /\ config = <<>>
    /\ lookback_years = 0 /\ default_anchor = 0 /\ year_order = ""
    /\ listed_prefixes = <<>> /\ priority_listed = <<>> /\ priority_unlisted = <<>>
    /\ required_docs = <<>> /\ optional_docs = <<>>
    /\ def_with_anchor = <<>> /\ global_median = None /\ sector_medians = <<>>
    /\ plan_rows = <<>> /\ plan = None /\ emitted = <<>>
    /\ PipelineIdle
    /\ ResolverIdle

\* Lines 34-49.
CallParseYear ==
    /\ "parse_year" \notin returned
    /\ year_result' = parse_year(year_value)
    /\ returned' = returned \cup {"parse_year"}
    /\ UNCHANGED <<year_value, cin_value, cin_prefixes, listed_result>>
    /\ UNCHANGED <<planVars, pipelineVars, resolverVars>>

\* Lines 138-142.
CallCinIsListed ==
    /\ "cin_is_listed" \notin returned
    /\ listed_result' = cin_is_listed(cin_value, cin_prefixes)
    /\ returned' = returned \cup {"cin_is_listed"}
    /\ UNCHANGED <<year_value, year_result, cin_value, cin_prefixes>>
    /\ UNCHANGED <<planVars, pipelineVars, resolverVars>>

FunctionNext ==
    \/ CallParseYear
    \/ CallCinIsListed

FunctionSpec == FunctionInit /\ [][FunctionNext]_vars

(***************************************************************************)
(* C21: cin_is_listed returns false for an empty, blank or absent          *)
(* identifier, and otherwise true exactly when the trimmed identifier      *)
(* starts with at least one configured prefix, letters compared without    *)
(* regard to case; it returns a truth value for every identifier.          *)
(***************************************************************************)
IdentifierText == IF cin_value = None THEN "" ELSE Strip(TheValue(cin_value))

SamePrefixIgnoringCase(text, prefix) ==
    /\ Len(prefix) <= Len(text)
    /\ \A i \in 1..Len(prefix) : LowerChar(CharAt(text, i)) = LowerChar(CharAt(prefix, i))

C21_ListedByPrefix ==
    "cin_is_listed" \in returned =>
        /\ listed_result \in BOOLEAN
        /\ IdentifierText = "" => ~listed_result
        /\ IdentifierText # "" =>
              (listed_result <=>
                  \E i \in 1..Len(cin_prefixes) :
                      SamePrefixIgnoringCase(IdentifierText, cin_prefixes[i]))

C21_Witness ==
    /\ "cin_is_listed" \in returned
    /\ cin_value = Some(" l27100mh1995plc084207 ")
    /\ cin_prefixes = <<"l", "U1">>
    /\ listed_result

(***************************************************************************)
(* C22: parse_year returns either no value or an integer in [1900, 2100],  *)
(* never 0: the year for an in-range integer, numeric string or numeric    *)
(* string with a trailing '.0', and no value for an absent or blank value, *)
(* for 'nan', 'na', 'none', '-' in any case, for non-numeric text and for  *)
(* a number outside [1900, 2100].                                          *)
(***************************************************************************)
NonNumericTexts == {"abc", "2021.5", "20x1", "2021.0.0", ".0", "nan.0", "-.0"}

C22_YearOrNoValue ==
    "parse_year" \in returned =>
        /\ year_result = None \/ \E y \in 1900..2100 : year_result = Some(y)
        /\ year_result # Some(0)
        /\ \A y \in YearNumbers, suffix \in DecimalSuffixes, l \in Pads, r \in Pads :
              year_value = Some(l \o FormatNat(y) \o suffix \o r) =>
                  year_result = IF 1900 <= y /\ y <= 2100 THEN Some(y) ELSE None
        /\ year_value = None => year_result = None
        /\ year_value \in {Some(t) : t \in MarkerTexts \cup NonNumericTexts \cup {"-2021"}}
              => year_result = None

C22_Witness ==
    /\ "parse_year" \in returned
    /\ year_value = Some(" 1900.0 ")
    /\ year_result = Some(1900)

(***************************************************************************)
(* cibil_loader.py and validate_cibil_data.py: the identifier checks.      *)
(***************************************************************************)
IsLetter(c) == IndexIn(c, UPPERCASE) > 0 \/ IndexIn(c, LOWERCASE) > 0
IsDigit(c) == IndexIn(c, DIGITS) > 0

\* str.isalnum()
IsAlnum(s) == Len(s) > 0 /\ \A i \in 1..Len(s) : IsLetter(CharAt(s, i)) \/ IsDigit(CharAt(s, i))

RECURSIVE RemoveSpaces(_)
\* str.replace(" ", "")
RemoveSpaces(s) ==
    IF Len(s) = 0 THEN ""
    ELSE IF CharAt(s, 1) = " " THEN RemoveSpaces(SubSeq(s, 2, Len(s)))
    ELSE CharAt(s, 1) \o RemoveSpaces(SubSeq(s, 2, Len(s)))

AllLetters(s, from, to) == \A i \in from..to : IsLetter(CharAt(s, i))
AllDigits(s, from, to) == \A i \in from..to : IsDigit(CharAt(s, i))

\* CIN_PATTERN.match(s): ^[A-Z]{1,2}[0-9]{2}[A-Z]{2}[0-9]{4}[A-Z]{3}[0-9]{6}$ with re.IGNORECASE.
CIN_PATTERN(s) ==
    \E k \in 1..2 :
        /\ Len(s) = k + 17
        /\ AllLetters(s, 1, k)
        /\ AllDigits(s, k + 1, k + 2)
        /\ AllLetters(s, k + 3, k + 4)
        /\ AllDigits(s, k + 5, k + 8)
        /\ AllLetters(s, k + 9, k + 11)
        /\ AllDigits(s, k + 12, k + 17)

\* normalize_cin(value) on a cell of the frame read with dtype=str: None or Some(CIN).
normalize_cin(value) ==
    LET s == Upper(Strip(value))
        t == RemoveSpaces(s)
    IN  IF Len(s) = 0 \/ s \in {"NAN", "NA", "-"} THEN None
        ELSE IF CIN_PATTERN(t) THEN Some(t)
        ELSE IF Len(t) = 21 /\ IsAlnum(t) THEN Some(t)
        ELSE None

\* is_valid_cin(s)
is_valid_cin(s) ==
    LET t == Upper(RemoveSpaces(Strip(s)))
    IN  Len(t) = 21 /\ IsAlnum(t)

\* normalize_company_name(value)
normalize_company_name(value) == Strip(value)

RECURSIVE SelectRows(_, _)
\* frame[mask]: the rows whose index is in keep, in frame order.
SelectRows(frame, keep) ==
    IF Len(frame) = 0 THEN <<>>
    ELSE SelectRows(SubSeq(frame, 1, Len(frame) - 1), keep)
         \o (IF Len(frame) \in keep THEN <<frame[Len(frame)]>> ELSE <<>>)

\* df.replace({None: "", "nan": "", "NaN": ""}).fillna("") on one cell.
ReplaceNan(cell) == IF cell \in {"nan", "NaN"} THEN "" ELSE cell

\* load_cibil_csv(path) on a file with the columns company_name and cin.
load_cibil_csv(rows) ==
    LET out == [i \in 1..Len(rows) |->
                   [company_name |-> normalize_company_name(ReplaceNan(rows[i].company_name)),
                    cin |-> normalize_cin(ReplaceNan(rows[i].cin)),
                    source_row |-> i - 1]]
    IN  SelectRows(out, {i \in 1..Len(out) : Len(out[i].company_name) > 0})

\* get_rows_with_cin(df)
get_rows_with_cin(df) == SelectRows(df, {i \in 1..Len(df) : df[i].cin # None})

(***************************************************************************)
(* cibil_mca_pipeline.py.                                                  *)
(***************************************************************************)
MaxCheckpoint == 3

\* load_checkpoint(path) that takes every row of the file as done.
load_checkpoint_AnyStatus(rows) == {rows[i].cin : i \in 1..Len(rows)}

\* load_checkpoint(path): the CINs of the rows with status "success".
load_checkpoint(rows) ==
    {rows[i].cin : i \in {k \in 1..Len(rows) : rows[k].status = "success"}}

\* save_checkpoint_row(path, cin, company_name, status, message): the file afterwards.
save_checkpoint_row(rows, cin, company_name, status, message) ==
    Append(rows, [cin |-> cin, company_name |-> company_name, status |-> status,
                  message |-> message])

\* The file after save_checkpoint_row, kept finite: once it holds MaxCheckpoint rows, a row
\* equal to one already in the file is not repeated (a reader of the file cannot tell).
SavedCheckpoint(rows, cin, company_name, status, message) ==
    LET saved == save_checkpoint_row(rows, cin, company_name, status, message)
    IN  IF Len(rows) >= MaxCheckpoint /\ saved[Len(saved)] \in Range(rows) THEN rows ELSE saved

\* todo.head(limit)
Head_n(rows, limit) ==
    IF limit = None \/ TheValue(limit) >= Len(rows) THEN rows
    ELSE SubSeq(rows, 1, TheValue(limit))

CIN_ACME == "L27100MH1995PLC084207"
CIN_BETA == "U74999DL2001PTC112233"
CIN_CORAL == "L27MH1995PLC084207"

CibilFiles ==
    { <<[company_name |-> "Acme Ltd", cin |-> CIN_ACME],
        [company_name |-> "Beta Co", cin |-> CIN_BETA]>>,
      <<[company_name |-> "Acme Ltd", cin |-> CIN_ACME],
        [company_name |-> "Acme Limited", cin |-> " l27100mh1995plc084207 "]>>,
      <<[company_name |-> "Acme Ltd", cin |-> CIN_ACME],
        [company_name |-> " Zed ", cin |-> ""],
        [company_name |-> "Coral Inc", cin |-> CIN_CORAL],
        [company_name |-> "nan", cin |-> CIN_BETA],
        [company_name |-> "Beta Co", cin |-> CIN_BETA]>>,
      <<[company_name |-> "Beta Co", cin |-> "nan"],
        [company_name |-> "Coral Inc", cin |-> "U1"]>> }

\* todo of lines 67-68 for every input file.
LoadedFiles == [file \in CibilFiles |-> get_rows_with_cin(load_cibil_csv(file))]

\* Lines 67-68, for the file of this run (the files are read once each for the whole check).
RowsWithCin == LoadedFiles[cibil_csv]

\* Lines 73-76.
Todo ==
    LET done == load_checkpoint(pipeline_checkpoint)
        with_cin == RowsWithCin
    IN  Head_n(SelectRows(with_cin, {i \in 1..Len(with_cin) : TheValue(with_cin[i].cin) \notin done}),
               pipeline_limit)

PipelineLimits == {None, Some(1), Some(2)}

PipelineInit ==
    /\ cibil_csv \in CibilFiles
    /\ pipeline_limit \in PipelineLimits
    /\ pipeline_checkpoint = <<>>
    /\ pipeline_pc = "idle"
    /\ pipeline_todo = <<>>
    /\ pipeline_idx = 0
    /\ result = None
    /\ pipeline_message = ""
    /\ status_report = None
    /\ fetched = {}
    /\ pc = "idle" /\ error = "" /\ idx = 0
    /\ defaulters = <<>> /\ def_columns = {} /\ non_defaulters = <<>> /\ non_columns = {}
    /\ config = <<>>
    /\ lookback_years = 0 /\ default_anchor = 0 /\ year_order = ""
    /\ listed_prefixes = <<>> /\ priority_listed = <<>> /\ priority_unlisted = <<>>
    /\ required_docs = <<>> /\ optional_docs = <<>>
    /\ def_with_anchor = <<>> /\ global_median = None /\ sector_medians = <<>>
    /\ plan_rows = <<>> /\ plan = None /\ emitted = <<>>
    /\ FunctionsIdle
    /\ ResolverIdle

\* Lines 67-71: no row of the input has a CIN.
RunFindsNoCin ==
    /\ pipeline_pc = "idle"
    /\ Len(RowsWithCin) = 0
    /\ pipeline_message' = "No rows with CIN found."
    /\ UNCHANGED <<cibil_csv, pipeline_limit, pipeline_checkpoint, pipeline_pc, pipeline_todo,
                   pipeline_idx, result, status_report, fetched>>
    /\ UNCHANGED <<planVars, functionVars, resolverVars>>

\* Lines 67-81: every CIN of the input is in the checkpoint.
RunFindsNothingNew ==
    /\ pipeline_pc = "idle"
    /\ Len(RowsWithCin) > 0
    /\ Len(Todo) = 0
    /\ pipeline_message' = "No new CINs to process"
    /\ UNCHANGED <<cibil_csv, pipeline_limit, pipeline_checkpoint, pipeline_pc, pipeline_todo,
                   pipeline_idx, result, status_report, fetched>>
    /\ UNCHANGED <<planVars, functionVars, resolverVars>>

\* Lines 67-83: the loop is entered.
RunStarts ==
    /\ pipeline_pc = "idle"
    /\ Len(RowsWithCin) > 0
    /\ Len(Todo) > 0
    /\ pipeline_todo' = Todo
    /\ pipeline_idx' = 1
    /\ pipeline_pc' = "fetch"
    /\ pipeline_message' = "Processing"
    /\ UNCHANGED <<cibil_csv, pipeline_limit, pipeline_checkpoint, result, status_report, fetched>>
    /\ UNCHANGED <<planVars, functionVars, resolverVars>>

\* Lines 84-88: mca_fetch_report is called and returns, with success or not.
FetchReport ==
    /\ pipeline_pc = "fetch"
    /\ \E success \in BOOLEAN :
          result' = Some([success |-> success,
                          message |-> IF success THEN "" ELSE "timeout"])
    /\ fetched' = fetched \cup {TheValue(pipeline_todo[pipeline_idx].cin)}
    /\ pipeline_pc' = "save"
    /\ UNCHANGED <<cibil_csv, pipeline_limit, pipeline_checkpoint, pipeline_todo, pipeline_idx,
                   pipeline_message, status_report>>
    /\ UNCHANGED <<planVars, functionVars, resolverVars>>

\* Lines 89-92: the row is appended and the loop goes on or ends.
SaveCheckpointRow ==
    /\ pipeline_pc = "save"
    /\ LET row == pipeline_todo[pipeline_idx]
           status == IF TheValue(result).success THEN "success" ELSE "error"
       IN  pipeline_checkpoint' =
               SavedCheckpoint(pipeline_checkpoint, TheValue(row.cin), row.company_name,
                               status, TheValue(result).message)
    /\ result' = None
    /\ IF pipeline_idx = Len(pipeline_todo)
       THEN pipeline_pc' = "idle" /\ pipeline_todo' = <<>> /\ pipeline_idx' = 0
       ELSE pipeline_pc' = "fetch" /\ pipeline_idx' = pipeline_idx + 1
                /\ UNCHANGED pipeline_todo
    /\ UNCHANGED <<cibil_csv, pipeline_limit, pipeline_message, status_report, fetched>>
    /\ UNCHANGED <<planVars, functionVars, resolverVars>>

\* status_pipeline(input_path, checkpoint_path), lines 95-105.
StatusPipeline ==
    /\ LET with_cin == RowsWithCin
           done == load_checkpoint(pipeline_checkpoint)
           done_count == Cardinality({i \in 1..Len(with_cin) : TheValue(with_cin[i].cin) \in done})
       IN  status_report' = Some([with_cin |-> Len(with_cin), done |-> done_count,
                                  pending |-> Len(with_cin) - done_count])
    /\ UNCHANGED <<cibil_csv, pipeline_limit, pipeline_checkpoint, pipeline_pc, pipeline_todo,
                   pipeline_idx, result, pipeline_message, fetched>>
    /\ UNCHANGED <<planVars, functionVars, resolverVars>>

PipelineNext ==
    \/ RunFindsNoCin
    \/ RunFindsNothingNew
    \/ RunStarts
    \/ FetchReport
    \/ SaveCheckpointRow
    \/ StatusPipeline

PipelineSpec == PipelineInit /\ [][PipelineNext]_vars

\* The run_pipeline command is run again and again, and a call that was started goes on.
PipelineFairness ==
    /\ WF_vars(RunStarts)
    /\ WF_vars(FetchReport)
    /\ WF_vars(SaveCheckpointRow)

PipelineLiveSpec == PipelineSpec /\ PipelineFairness

(***************************************************************************)
(* C23: across run_pipeline calls that share one checkpoint file,          *)
(* mca_fetch_report is never called for a CIN that has a row with status   *)
(* 'success' in the checkpoint at the moment of the call, also when the    *)
(* same CIN occurs in more than one row of the input.                      *)
(***************************************************************************)
FetchStep == pipeline_pc = "fetch" /\ pipeline_pc' = "save"

HasSuccessRow(cin) ==
    \E i \in 1..Len(pipeline_checkpoint) :
        pipeline_checkpoint[i].cin = cin /\ pipeline_checkpoint[i].status = "success"

C23_NoFetchAfterSuccess ==
    [][FetchStep => ~HasSuccessRow(TheValue(pipeline_todo[pipeline_idx].cin))]_vars

(***************************************************************************)
(* C24: the pipeline checkpoint is an append-only log: each                *)
(* mca_fetch_report call is followed, before the next fetch starts, by     *)
(* exactly one appended row with status 'success' or 'error' for that      *)
(* CIN; rows already in the file are never modified or removed; a CIN      *)
(* whose rows are all 'error' is still pending for the next run and for    *)
(* status_pipeline.                                                        *)
(***************************************************************************)
IsPrefixOf(a, b) == Len(a) <= Len(b) /\ \A i \in 1..Len(a) : b[i] = a[i]

SaveStep == pipeline_pc = "save" /\ pipeline_pc' # "save"

\* The row lines 89-90 write for the fetch that has just returned.
RowOfFetch ==
    [cin |-> TheValue(pipeline_todo[pipeline_idx].cin),
     company_name |-> pipeline_todo[pipeline_idx].company_name,
     status |-> IF TheValue(result).success THEN "success" ELSE "error",
     message |-> TheValue(result).message]

\* The rows of the input with a CIN that has no 'success' row in the file.
PendingRows(rows) ==
    {i \in 1..Len(RowsWithCin) :
        ~\E k \in 1..Len(rows) :
            rows[k].cin = TheValue(RowsWithCin[i].cin) /\ rows[k].status = "success"}

InputCins == {TheValue(RowsWithCin[i].cin) : i \in 1..Len(RowsWithCin)}

C30_NoPendingCinStarved ==
    \A cin \in {CIN_ACME, CIN_BETA, CIN_CORAL} :
        (pipeline_limit # None /\ cin \in InputCins) ~> (cin \in fetched)

(***************************************************************************)
(* cin_resolver.py.                                                        *)
(***************************************************************************)
RECURSIVE resolver_load_checkpoint(_)
\* load_checkpoint(path) of cin_resolver.py: company_name -> cin, a later row replaces an
\* earlier one.
resolver_load_checkpoint(rows) ==
    IF Len(rows) = 0 THEN <<>>
    ELSE LET out == resolver_load_checkpoint(SubSeq(rows, 1, Len(rows) - 1))
             name == Strip(rows[Len(rows)].company_name)
             cin == Strip(rows[Len(rows)].cin)
         IN  IF Len(name) > 0 /\ Len(cin) > 0 THEN DictSet(out, name, cin) ELSE out

\* save_checkpoint_row(path, company_name, cin) of cin_resolver.py: the file afterwards.
resolver_save_checkpoint_row(rows, company_name, cin) ==
    Append(rows, [company_name |-> company_name, cin |-> cin])

\* Line 205 on a row of raw_df.
HasCin(row) == Len(Strip(row.cin)) > 0 /\ CIN_PATTERN(Strip(row.cin))

RECURSIVE Classified(_, _, _)
\* Lines 199-210 from row i on: the frame with the checkpointed CINs filled in, and todo.
Classified(frame, known, i) ==
    IF i > Len(frame) THEN [frame |-> frame, todo |-> <<>>]
    ELSE LET name == Strip(frame[i].company_name)
         IN  IF Len(name) = 0 \/ HasCin(frame[i]) THEN Classified(frame, known, i + 1)
             ELSE IF name \in DOMAIN known
             THEN Classified([frame EXCEPT ![i].cin = known[name]], known, i + 1)
             ELSE LET rest == Classified(frame, known, i + 1)
                  IN  [frame |-> rest.frame, todo |-> <<<<i, name>>>> \o rest.todo]

\* todo[:limit]
FirstN(list, limit) ==
    IF limit = None \/ TheValue(limit) >= Len(list) THEN list
    ELSE SubSeq(list, 1, TheValue(limit))

\* What resolve_cin_mca can return: nothing, or the first match of CIN_PATTERN on the page.
ResolveOutcomes == {None, Some("L27MH1995PLC084207"), Some("U74DL2001PTC112233")}

ResolverFiles ==
    { <<[company_name |-> "Acme Ltd", cin |-> CIN_ACME],
        [company_name |-> "Beta Co", cin |-> ""]>>,
      <<[company_name |-> "Beta Co", cin |-> ""],
        [company_name |-> " Beta Co ", cin |-> "U1"]>>,
      <<[company_name |-> "Coral Inc", cin |-> " L27MH1995PLC084207 "],
        [company_name |-> "", cin |-> ""],
        [company_name |-> "Zed", cin |-> "-"]>>,
      <<[company_name |-> "Beta Co", cin |-> ""],
        [company_name |-> "Acme Ltd", cin |-> " l27100mh1995plc084207 "],
        [company_name |-> "Beta Co", cin |-> ""]>> }

ResolverLimits == {None, Some(1)}

ResolverInit ==
    /\ resolver_csv \in ResolverFiles
    /\ resolver_limit \in ResolverLimits
    /\ resolver_checkpoint = <<>>
    /\ resolver_pc = "idle"
    /\ raw_df = <<>>
    /\ checkpoint = <<>>
    /\ resolver_todo = <<>>
    /\ resolver_idx = 0
    /\ output_csv = None
    /\ resolved = {}
    /\ pc = "idle" /\ error = "" /\ idx = 0
    /\ defaulters = <<>> /\ def_columns = {} /\ non_defaulters = <<>> /\ non_columns = {}
    /\ config = <<>>
    /\ lookback_years = 0 /\ default_anchor = 0 /\ year_order = ""
    /\ listed_prefixes = <<>> /\ priority_listed = <<>> /\ priority_unlisted = <<>>
    /\ required_docs = <<>> /\ optional_docs = <<>>
    /\ def_with_anchor = <<>> /\ global_median = None /\ sector_medians = <<>>
    /\ plan_rows = <<>> /\ plan = None /\ emitted = <<>>
    /\ FunctionsIdle
    /\ PipelineIdle

\* Lines 191-220: nothing to resolve, the output is written.
ResolverFindsNothing ==
    /\ resolver_pc = "idle"
    /\ LET known == resolver_load_checkpoint(resolver_checkpoint)
           sorted == Classified(resolver_csv, known, 1)
       IN  /\ Len(FirstN(sorted.todo, resolver_limit)) = 0
           /\ raw_df' = sorted.frame
           /\ checkpoint' = known
           /\ output_csv' = Some(sorted.frame)
    /\ resolved' = {}
    /\ UNCHANGED <<resolver_csv, resolver_limit, resolver_checkpoint, resolver_pc, resolver_todo,
                   resolver_idx>>
    /\ UNCHANGED <<planVars, functionVars, pipelineVars>>

\* Lines 191-222: the loop is entered.
ResolverStarts ==
    /\ resolver_pc = "idle"
    /\ LET known == resolver_load_checkpoint(resolver_checkpoint)
           sorted == Classified(resolver_csv, known, 1)
       IN  /\ Len(FirstN(sorted.todo, resolver_limit)) > 0
           /\ raw_df' = sorted.frame
           /\ checkpoint' = known
           /\ resolver_todo' = FirstN(sorted.todo, resolver_limit)
    /\ resolver_idx' = 1
    /\ resolver_pc' = "resolve"
    /\ resolved' = {}
    /\ UNCHANGED <<resolver_csv, resolver_limit, resolver_checkpoint, output_csv>>
    /\ UNCHANGED <<planVars, functionVars, pipelineVars>>

\* Lines 223-232, one iteration: resolve_cin_mca is called and its result stored.
ResolveCin ==
    /\ resolver_pc = "resolve"
    /\ LET i == resolver_todo[resolver_idx][1]
           name == resolver_todo[resolver_idx][2]
       IN  /\ resolved' = resolved \cup {i}
           /\ \E cin \in ResolveOutcomes :
                 IF cin # None
                 THEN /\ raw_df' = [raw_df EXCEPT ![i].cin = TheValue(cin)]
                      /\ resolver_checkpoint' =
                             resolver_save_checkpoint_row(resolver_checkpoint, name, TheValue(cin))
                      /\ checkpoint' = DictSet(checkpoint, name, TheValue(cin))
                 ELSE UNCHANGED <<raw_df, resolver_checkpoint, checkpoint>>
    /\ IF resolver_idx = Len(resolver_todo)
       THEN resolver_pc' = "write" /\ UNCHANGED resolver_idx
       ELSE resolver_idx' = resolver_idx + 1 /\ UNCHANGED resolver_pc
    /\ UNCHANGED <<resolver_csv, resolver_limit, resolver_todo, output_csv>>
    /\ UNCHANGED <<planVars, functionVars, pipelineVars>>

\* Lines 234-235.
WriteOutput ==
    /\ resolver_pc = "write"
    /\ output_csv' = Some(raw_df)
    /\ resolver_pc' = "idle"
    /\ resolver_todo' = <<>>
    /\ resolver_idx' = 0
    /\ UNCHANGED <<resolver_csv, resolver_limit, resolver_checkpoint, raw_df, checkpoint, resolved>>
    /\ UNCHANGED <<planVars, functionVars, pipelineVars>>

ResolverNext ==
    \/ ResolverFindsNothing
    \/ ResolverStarts
    \/ ResolveCin
    \/ WriteOutput

ResolverSpec == ResolverInit /\ [][ResolverNext]_vars

(***************************************************************************)
(* C25: run_resolver treats a row that already carries a well-formed       *)
(* 21-character CIN (one accepted by normalize_cin and is_valid_cin, such  *)
(* as 'L27100MH1995PLC084207') as resolved: resolve_cin_mca is not called  *)
(* for it and its CIN in the output CSV equals its input value.            *)
(***************************************************************************)
WellFormedCin(text) ==
    /\ normalize_cin(text) # None
    /\ Len(TheValue(normalize_cin(text))) = 21
    /\ is_valid_cin(text)

\* The rows of each input file that carry a well-formed CIN.
WellFormedRows ==
    [file \in ResolverFiles |-> {i \in 1..Len(file) : WellFormedCin(file[i].cin)}]

ResolveStep ==
    resolver_pc = "resolve" /\ (resolver_idx' # resolver_idx \/ resolver_pc' # resolver_pc)

C25_RowWithCinLeftAlone ==
    /\ [][ResolveStep => resolver_todo[resolver_idx][1] \notin WellFormedRows[resolver_csv]]_vars
    /\ [](output_csv # None =>
            \A i \in WellFormedRows[resolver_csv] :
                TheValue(output_csv)[i].cin = resolver_csv[i].cin)

(***************************************************************************)
(* C26: resolve_cin_mca is never called for a company name that is in the  *)
(* checkpoint at the moment of the call; after a run without --limit every *)
(* row lacking a valid CIN whose name is in the checkpoint has the         *)
(* checkpointed CIN in the output; the checkpoint only receives rows of    *)
(* successful (non-empty CIN) resolutions. Also when one company name      *)
(* occurs in several input rows.                                           *)
(***************************************************************************)
\* The names with a CIN in the checkpoint file.
Checkpointed == DOMAIN resolver_load_checkpoint(resolver_checkpoint)

WriteStep == output_csv' # output_csv \/ (resolver_pc = "write" /\ resolver_pc' = "idle")

C26_CheckpointedNamesNotResolvedAgain ==
    /\ [][ResolveStep => resolver_todo[resolver_idx][2] \notin Checkpointed]_vars
    /\ [][WriteStep /\ resolver_limit = None =>
            \A i \in 1..Len(resolver_csv) :
                LET name == Strip(resolver_csv[i].company_name)
                IN  Len(name) > 0 /\ ~HasCin(resolver_csv[i]) /\ name \in Checkpointed =>
                        TheValue(output_csv')[i].cin =
                            resolver_load_checkpoint(resolver_checkpoint)[name]]_vars
    /\ [](\A k \in 1..Len(resolver_checkpoint) : Len(resolver_checkpoint[k].cin) > 0)

(***************************************************************************)
(* C27: general.year_order has no effect on the plan build_plan returns:   *)
(* with the same cohorts and an otherwise identical configuration, the     *)
(* plan built with 'asc' has the same rows in the same order as the plan   *)
(* built with 'desc'.                                                      *)
(***************************************************************************)
Cohort(r) == IF r <= Len(defaulters) THEN "defaulter" ELSE "non_defaulter"

RECURSIVE PlanRowsWith(_, _)
\* plan_rows after the first r records when the year windows are walked in the given order,
\* each record with the anchor this run resolved for it.
PlanRowsWith(r, order) ==
    IF r = 0 THEN <<>>
    ELSE PlanRowsWith(r - 1, order)
         \o append_company_rows(RecordRow(r), Cohort(r), emitted[r][1].anchor_fy,
                                emitted[r][1].anchor_reason, lookback_years, order,
                                listed_prefixes, priority_listed, priority_unlisted,
                                required_docs, optional_docs)

OtherYearOrder == IF year_order = "asc" THEN "desc" ELSE "asc"

C27_YearOrderWithoutEffect ==
    pc = "done" /\ year_order \in {"asc", "desc"} =>
        /\ plan_rows = PlanRowsWith(Len(emitted), year_order)
        /\ plan = Some(sort_values(PlanRowsWith(Len(emitted), OtherYearOrder)))

C27_Witness ==
    /\ pc = "done"
    /\ year_order = "asc"
    /\ lookback_years >= 2
    /\ Len(defaulters) >= 1
    /\ Len(non_defaulters) >= 1
    /\ plan_rows # PlanRowsWith(Len(emitted), "desc")
    /\ plan = Some(sort_values(PlanRowsWith(Len(emitted), "desc")))

(***************************************************************************)
(* C28: every job row of the plan agrees with its record's single          *)
(* resolution: anchor_fy - lookback_years < target_fy <= anchor_fy; all    *)
(* rows emitted for one input record carry the same cohort, company_name,  *)
(* cin, sector, is_listed, anchor_fy, anchor_reason and source_priority;   *)
(* cohort is 'defaulter' exactly for the rows derived from the defaulter   *)
(* dataset and 'non_defaulter' otherwise.                                  *)
(***************************************************************************)
SameRecordFields(a, b) ==
    /\ a.cohort = b.cohort
    /\ a.company_name = b.company_name
    /\ a.cin = b.cin
    /\ a.sector = b.sector
    /\ a.is_listed = b.is_listed
    /\ a.anchor_fy = b.anchor_fy
    /\ a.anchor_reason = b.anchor_reason
    /\ a.source_priority = b.source_priority

EmittedRows == UNION {Range(emitted[r]) : r \in Records}

C28_RowsAgreeWithResolution ==
    /\ \A r \in Records :
          Appended(r) =>
              \A k \in 1..Len(emitted[r]) :
                  LET job == emitted[r][k]
                  IN  /\ job.anchor_fy - ConfiguredLookback < job.target_fy
                      /\ job.target_fy <= job.anchor_fy
                      /\ SameRecordFields(job, emitted[r][1])
                      /\ job.cohort = "defaulter" <=> r <= Len(defaulters)
                      /\ job.cohort = "non_defaulter" <=> r > Len(defaulters)
    /\ pc = "done" =>
          /\ Len(TheValue(plan)) = Len(plan_rows)
          /\ Range(TheValue(plan)) = EmittedRows

C28_Witness ==
    /\ pc = "done"
    /\ ConfiguredLookback = 2
    /\ Len(defaulters) = 2
    /\ Len(non_defaulters) = 2
    /\ \E k \in 1..Len(TheValue(plan)) :
          /\ TheValue(plan)[k].cohort = "non_defaulter"
          /\ TheValue(plan)[k] \in Range(emitted[4])
          /\ TheValue(plan)[k].target_fy = TheValue(plan)[k].anchor_fy - 1

(***************************************************************************)
(* C29: an anchor_mode string that is not a recognised mode after          *)
(* trimming and lower-casing is not rejected: infer_defaulter_anchor       *)
(* treats it as the default fy_before_default/default_year mode and        *)
(* infer_non_defaulter_anchor as the default sector-median mode, and no    *)
(* configuration error is raised for it; recognised mode names match       *)
(* without regard to case.                                                 *)
(***************************************************************************)
UnknownDefaulterMode ==
    /\ "anchor_mode" \in DOMAIN config.defaulters
    /\ DefaulterMode \notin {"fixed_year", "column", "fy_before_default_or_default_minus_one"}

UnknownNonDefaulterMode ==
    /\ "anchor_mode" \in DOMAIN config.non_defaulters
    /\ NonDefaulterMode \notin {"fixed_year", "column", "global_median_from_defaulters",
                                "sector_median_from_defaulters"}

\* The option group with the mode left to its default, and with the mode spelled m.
WithoutMode(cfg) == [k \in DOMAIN cfg \ {"anchor_mode"} |-> cfg[k]]
WithMode(cfg, m) == [k \in DOMAIN cfg \cup {"anchor_mode"} |-> IF k = "anchor_mode" THEN m ELSE cfg[k]]

\* What defaulter i gets under the option group cfg.
DefaulterResolutionUnder(i, cfg) ==
    infer_defaulter_anchor([row |-> defaulters[i], anchor_fy |-> None, anchor_reason |-> ""],
                           cfg, ConfiguredFallback)

\* What non-defaulter record r gets under the option group cfg.
NonDefaulterResolutionUnder(r, cfg) ==
    infer_non_defaulter_anchor(non_defaulters[r - Len(defaulters)], cfg, ConfiguredFallback,
                               sector_medians, TheValue(global_median))

ResolvedAs(i, res) ==
    def_with_anchor[i].anchor_fy = Some(res[1]) /\ def_with_anchor[i].anchor_reason = res[2]

C29_UnknownModeIsDefaultMode ==
    /\ (UnknownDefaulterMode \/ UnknownNonDefaulterMode) => error \notin ConfigurationErrors \/ BadConfiguration
    /\ \A i \in 1..Len(defaulters) :
          Resolved(i) =>
              /\ UnknownDefaulterMode =>
                    ResolvedAs(i, DefaulterResolutionUnder(i, WithoutMode(config.defaulters)))
              /\ DefaulterMode \in {"fixed_year", "column"} =>
                    ResolvedAs(i, DefaulterResolutionUnder(i, WithMode(config.defaulters, DefaulterMode)))
    /\ \A r \in NonDefaulterRecords :
          Appended(r) =>
              /\ UnknownNonDefaulterMode =>
                    LET res == NonDefaulterResolutionUnder(r, WithoutMode(config.non_defaulters))
                    IN  AnchoredBy(r, res[1], res[2])
              /\ NonDefaulterMode \in {"fixed_year", "column"} /\ "anchor_mode" \in DOMAIN config.non_defaulters =>
                    LET res == NonDefaulterResolutionUnder(r, WithMode(config.non_defaulters, NonDefaulterMode))
                    IN  AnchoredBy(r, res[1], res[2])

C29_Witness ==
    /\ pc = "done"
    /\ UnknownDefaulterMode
    /\ Len(defaulters) = 2
    /\ def_with_anchor[1].anchor_reason = "default_year+0"
    /\ def_with_anchor[1].anchor_fy = Some(2020)

====
